---- MODULE Spec2Model ----
(***************************************************************************)
(* Model of the OSINT collection orchestrator (runSafeOsintCollection and  *)
(* its pure helpers).  Strings are sequences of one-character strings, so  *)
(* that trimming, case folding and splitting are computed, not assumed.    *)
(* One collection run is a stack of invocation frames; every action is the *)
(* code between two suspension points of the active (top) frame.           *)
(***************************************************************************)
EXTENDS Integers, Sequences, FiniteSets, TLC

VARIABLES
    stack,      \* invocation frames of runSafeOsintCollection, innermost last
    now,        \* Date.now()
    provider,   \* process.env.OSINT_SEARCH_PROVIDER is set
    last,       \* the CollectionResult returned most recently (NoResult before)
    done,       \* the top-level invocation has returned
    netlog,     \* network requests started so far in this run
    calls,      \* recursive invocations made so far in this run
    pure,       \* the last application of a pure helper: [op, in, out]
    rejected,   \* why the top-level promise rejected: "none" while it has not
    jobs        \* the task queue of jobs/queue.ts and the stored rows it works on

vars == <<stack, now, provider, last, done, netlog, calls, pure, rejected, jobs>>

\* ------------------------------------------------------------------ bounds
MaxClock == 1
MaxStack == 3

\* ------------------------------------------------------- program constants
DefaultBudgetNormal == 90000
DefaultBudgetThorough == 300000
FollowMaxNormal == 1
FollowMaxThorough == 4
MaxQueriesNormal == 2
MaxQueriesThorough == 5
CaseMaxNormal == 8
CaseMaxThorough == 20
CasePrimaryNormal == 2
CasePrimaryThorough == 4
MaxResultsPerQuery == 10
MaxSubdomains == 500
RiskSubdomainThreshold == 50
RiskSubdomainDelta == 5

Undef == -1
NoResult == [exit |-> "none"]
Idle == [op |-> "idle"]

\* ----------------------------------------------------------------- strings
Uppers == <<"A","B","C","D","E","F","G","H","I","J","K","L","M",
            "N","O","P","Q","R","S","T","U","V","W","X","Y","Z">>
Lowers == <<"a","b","c","d","e","f","g","h","i","j","k","l","m",
            "n","o","p","q","r","s","t","u","v","w","x","y","z">>
Digits == {"0","1","2","3","4","5","6","7","8","9"}
Whitespace == {" ", "\t", "\n", "\r"}

LowerC(c) ==
    IF \E i \in 1..26 : Uppers[i] = c
    THEN Lowers[CHOOSE i \in 1..26 : Uppers[i] = c]
    ELSE c

\* String.prototype.toLowerCase
Lower(s) == [i \in 1..Len(s) |-> LowerC(s[i])]

IsLetter(c) == \E i \in 1..26 : Uppers[i] = c \/ Lowers[i] = c

RECURSIVE TrimLeft(_)
TrimLeft(s) ==
    IF s = <<>> \/ s[1] \notin Whitespace THEN s ELSE TrimLeft(Tail(s))

RECURSIVE TrimRight(_)
TrimRight(s) ==
    IF s = <<>> \/ s[Len(s)] \notin Whitespace THEN s
    ELSE TrimRight(SubSeq(s, 1, Len(s) - 1))

\* String.prototype.trim
Trim(s) == TrimRight(TrimLeft(s))

Includes(s, c) == \E i \in 1..Len(s) : s[i] = c

StartsWith(s, p) == Len(s) >= Len(p) /\ SubSeq(s, 1, Len(p)) = p

Drop(s, n) == SubSeq(s, n + 1, Len(s))

\* s.replace(/^https?:\/\//i, "")
StripScheme(s) ==
    LET l == Lower(s) IN
    IF StartsWith(l, <<"h","t","t","p",":","/","/">>) THEN Drop(s, 7)
    ELSE IF StartsWith(l, <<"h","t","t","p","s",":","/","/">>) THEN Drop(s, 8)
    ELSE s

\* s.replace(/\/.*$/, ""): cut at the first "/" that no line break follows
StripPath(s) ==
    LET cuts == {i \in 1..Len(s) :
                    /\ s[i] = "/"
                    /\ \A j \in (i + 1)..Len(s) : s[j] \notin {"\n", "\r"}}
    IN IF cuts = {} THEN s
       ELSE SubSeq(s, 1, (CHOOSE i \in cuts : \A j \in cuts : i <= j) - 1)

normalizeTarget(target) == StripPath(StripScheme(Trim(target)))

\* raw.replace(/[^\d+]/g, "") and the two branches on a leading "+"
normalizePhone(raw) ==
    LET kept   == SelectSeq(raw, LAMBDA c : c \in Digits \/ c = "+")
        digits == SelectSeq(kept, LAMBDA c : c \in Digits)
    IN IF kept # <<>> /\ kept[1] = "+"
       THEN <<"+">> \o SelectSeq(Tail(kept), LAMBDA c : c \in Digits)
       ELSE digits

\* the parts of s between the separators sep (String.prototype.split)
RECURSIVE Split(_, _)
Split(s, sep) ==
    IF ~Includes(s, sep) THEN <<s>>
    ELSE LET i == CHOOSE k \in 1..Len(s) :
                      s[k] = sep /\ \A j \in 1..(k - 1) : s[j] # sep
         IN <<SubSeq(s, 1, i - 1)>> \o Split(Drop(s, i), sep)

AllDigits(s) == \A i \in 1..Len(s) : s[i] \in Digits

\* /^\d{1,3}(\.\d{1,3}){3}$/
IsDottedQuad(s) ==
    LET parts == Split(s, ".") IN
    /\ Len(parts) = 4
    /\ \A i \in 1..4 : Len(parts[i]) \in 1..3 /\ AllDigits(parts[i])

\* /\d{1,6}\s+\S+/
HasStreetNumber(s) ==
    \E i \in 1..Len(s) : \E j \in (i + 2)..Len(s) :
        /\ s[i] \in Digits
        /\ \A k \in (i + 1)..(j - 1) : s[k] \in Whitespace
        /\ s[j] \notin Whitespace

\* target.trim().split(/\s+/).length
WordCount(s) ==
    LET t == Trim(s) IN
    IF t = <<>> THEN 1
    ELSE 1 + Cardinality({i \in 2..Len(t) :
                             t[i] \in Whitespace /\ t[i - 1] \notin Whitespace})

\* the domain check is made first
guessTargetTypeDomainFirst(target) ==
    LET digits == SelectSeq(target, LAMBDA c : c \in Digits) IN
    IF Includes(target, ".") /\ ~Includes(target, " ") THEN "domain"
    ELSE IF IsDottedQuad(target) THEN "ip"
    ELSE IF Includes(target, "@") THEN "email"
    ELSE IF Len(digits) >= 10 /\ Len(digits) <= 15 THEN "phone"
    ELSE IF HasStreetNumber(target) \/ Includes(target, ",") THEN "address"
    ELSE IF (\E i \in 1..Len(target) : IsLetter(target[i])) /\ WordCount(target) >= 2
         THEN "name"
    ELSE "username"

guessTargetType(target) ==
    LET digits == SelectSeq(target, LAMBDA c : c \in Digits) IN
    IF IsDottedQuad(target) THEN "ip"
    ELSE IF Includes(target, "@") THEN "email"
    ELSE IF Includes(target, ".") /\ ~Includes(target, " ") THEN "domain"
    ELSE IF Len(digits) >= 10 /\ Len(digits) <= 15 THEN "phone"
    ELSE IF HasStreetNumber(target) \/ Includes(target, ",") THEN "address"
    ELSE IF (\E i \in 1..Len(target) : IsLetter(target[i])) /\ WordCount(target) >= 2
         THEN "name"
    ELSE "username"

\* ------------------------------------------------- entities and evidence
TDomain   == <<"d","o","m","a","i","n">>
TIp       == <<"i","p">>
TUrl      == <<"u","r","l">>
TUsername == <<"u","s","e","r","n","a","m","e">>
TEmail    == <<"e","m","a","i","l">>
TPhone    == <<"p","h","o","n","e">>
TLocation == <<"l","o","c","a","t","i","o","n">>
TAddress  == <<"a","d","d","r","e","s","s">>
TPerson   == <<"p","e","r","s","o","n">>
TOrg      == <<"o","r","g">>

\* `${e.entityType}:${e.value}`.toLowerCase()
EntityKey(e) == Lower(e.entityType \o <<":">> \o e.value)

addEntityUntrimmed(entities, entityType, value, metadata) ==
    IF Trim(value) = <<>> THEN entities
    ELSE Append(entities, [entityType |-> entityType, value |-> value, metadata |-> metadata])

\* const addEntity = (entityType, value, metadata) => ...
addEntity(entities, entityType, value, metadata) ==
    LET v == Trim(value) IN
    IF v = <<>> THEN entities
    ELSE Append(entities, [entityType |-> entityType, value |-> v, metadata |-> metadata])

\* values.forEach((v) => addEntity(entityType, v))
RECURSIVE addEntities(_, _, _, _)
addEntities(entities, entityType, values, metadata) ==
    IF values = <<>> THEN entities
    ELSE addEntities(addEntity(entities, entityType, Head(values), metadata),
                     entityType, Tail(values), metadata)

\* entities.filter((e) => { k = key; if (seen.has(k)) return false; seen.add(k); return true })
RECURSIVE DedupFrom(_, _)
DedupFrom(entities, seen) ==
    IF entities = <<>> THEN <<>>
    ELSE LET e == Head(entities)
             k == EntityKey(e)
         IN IF k \in seen THEN DedupFrom(Tail(entities), seen)
            ELSE <<e>> \o DedupFrom(Tail(entities), seen \cup {k})

DedupKeepLast(entities) ==
    LET n == Len(entities)
        keep == {i \in 1..n : \A j \in (i + 1)..n : EntityKey(entities[j]) # EntityKey(entities[i])}
        F[i \in 0..n] == IF i = 0 THEN <<>>
                         ELSE IF i \in keep THEN Append(F[i - 1], entities[i]) ELSE F[i - 1]
    IN F[n]

DedupEntities(entities) == DedupFrom(entities, {})

\* function uniqueByValue(vals)
RECURSIVE UniqueFrom(_, _)
UniqueFrom(vals, seen) ==
    IF vals = <<>> THEN <<>>
    ELSE LET k == Lower(Trim(Head(vals))) IN
         IF k = <<>> \/ k \in seen THEN UniqueFrom(Tail(vals), seen)
         ELSE <<Trim(Head(vals))>> \o UniqueFrom(Tail(vals), seen \cup {k})

uniqueByValue(vals) == UniqueFrom(vals, {})

\* the whole array, whatever n
TakeAll(s, n) == s

\* arr.slice(0, n)
Take(s, n) == SubSeq(s, 1, IF Len(s) < n THEN Len(s) ELSE n)

\* Array.from(new Set(arr)): first occurrences, in order
RECURSIVE SetOrder(_, _)
SetOrder(s, seen) ==
    IF s = <<>> THEN <<>>
    ELSE IF Head(s) \in seen THEN SetOrder(Tail(s), seen)
    ELSE <<Head(s)>> \o SetOrder(Tail(s), seen \cup {Head(s)})

RECURSIVE SumSeq(_)
SumSeq(s) == IF s = <<>> THEN 0 ELSE Head(s) + SumSeq(Tail(s))

\* An evidence draft.  title is the fixed part of the title, about the value
\* interpolated into it, conf is metadata.confidence in thousandths.  content
\* is kept for the DNS item only: the record kinds dnsSummary holds.
Ev(type, title, about, source, conf) ==
    [type |-> type, title |-> title, about |-> about, source |-> source, conf |-> conf,
     content |-> <<>>]

computeConfidenceMissingAsZero(evidence) ==
    LET vals == SelectSeq([ix \in 1..Len(evidence) |->
                              IF evidence[ix].conf = Undef THEN 0 ELSE evidence[ix].conf],
                          LAMBDA n : n >= 0 /\ n <= 1000)
    IN IF Len(vals) = 0 THEN 0
       ELSE LET r == (2 * SumSeq(vals) + Len(vals)) \div (2 * Len(vals))
            IN IF r < 0 THEN 0 ELSE IF r > 1000 THEN 1000 ELSE r

\* function computeConfidence(evidence), in thousandths.  A draft without
\* metadata.confidence has conf = Undef (Number(undefined) is NaN, which the
\* filter drops).  toFixed(3) rounds to the nearest thousandth.
computeConfidence(evidence) ==
    LET vals == SelectSeq([ix \in 1..Len(evidence) |-> evidence[ix].conf],
                          LAMBDA n : n >= 0 /\ n <= 1000)
    IN IF Len(vals) = 0 THEN 0
       ELSE LET r == (2 * SumSeq(vals) + Len(vals)) \div (2 * Len(vals))
            IN IF r < 0 THEN 0 ELSE IF r > 1000 THEN 1000 ELSE r

\* -------------------------------------------------- the indicator extractor
TypeChars(t) ==
    CASE t = "domain" -> TDomain [] t = "ip" -> TIp [] t = "email" -> TEmail
      [] t = "phone" -> TPhone [] t = "address" -> TAddress
      [] t = "username" -> TUsername
      [] t = "name" -> <<"n","a","m","e">> [] t = "case" -> <<"c","a","s","e">>

\* the rest of line l after /^label\s*:/i, or <<"\n">> (no line holds a line
\* break) when the line does not start with the label
LabelRest(l, label) ==
    IF ~StartsWith(Lower(l), label) THEN <<"\n">>
    ELSE LET r == TrimLeft(Drop(l, Len(label))) IN
         IF r # <<>> /\ r[1] = ":" THEN Tail(r) ELSE <<"\n">>

HasLabel(l, label) == LabelRest(l, label) # <<"\n">>

BadPrefixes == { <<"p","h","o","n","e">>, TEmail, TDomain, TUsername,
                 <<"u","s","e","r">>, <<"n","a","m","e">> }

StreetWords == { <<"s","t">>, <<"s","t","r","e","e","t">>, <<"a","v","e">>,
                 <<"a","v","e","n","u","e">>, <<"r","d">>, <<"r","o","a","d">>,
                 <<"b","l","v","d">>, <<"b","o","u","l","e","v","a","r","d">>,
                 <<"d","r">>, <<"d","r","i","v","e">>, <<"l","n">>, <<"l","a","n","e">>,
                 <<"c","t">>, <<"c","o","u","r","t">>, <<"w","a","y">>, <<"h","w","y">>,
                 <<"h","i","g","h","w","a","y">>, <<"p","k","w","y">>,
                 <<"p","a","r","k","w","a","y">> }

IsWordChar(c) == IsLetter(c) \/ c \in Digits \/ c = "_"

\* /\b(st|street|...)\b/i: a maximal run of word characters is a street word
HasStreetWord(l) ==
    \E i \in 1..Len(l) : \E j \in i..Len(l) :
        /\ Lower(SubSeq(l, i, j)) \in StreetWords
        /\ (i = 1 \/ ~IsWordChar(l[i - 1]))
        /\ (j = Len(l) \/ ~IsWordChar(l[j + 1]))


IsAddressLine(l) ==
    LET hasStreetNumber == HasStreetNumber(l)
        hasComma == Includes(l, ",") /\ \E i \in 1..Len(l) : l[i] \in Digits
    IN /\ \A b \in BadPrefixes : ~HasLabel(l, b)
       /\ \/ hasStreetNumber /\ (hasComma \/ HasStreetWord(l))
          \/ hasComma /\ Len(l) > 12

IsNameLine(l) ==
    /\ \E i \in 1..Len(l) : IsLetter(l[i])
    /\ WordCount(l) >= 2
    /\ Len(l) <= 80

\* out.push({type, value: v}) unless the trimmed value is empty
addIndicator(out, type, value) ==
    IF Trim(value) = <<>> THEN out ELSE Append(out, [type |-> type, value |-> Trim(value)])

RECURSIVE addIndicators(_, _, _)
addIndicators(out, type, values) ==
    IF values = <<>> THEN out
    ELSE addIndicators(addIndicator(out, type, Head(values)), type, Tail(values))

IndicatorKey(i) == Lower(TypeChars(i.type) \o <<":">> \o i.value)

RECURSIVE DedupIndicators(_, _)
DedupIndicators(out, seen) ==
    IF out = <<>> THEN <<>>
    ELSE IF IndicatorKey(Head(out)) \in seen THEN DedupIndicators(Tail(out), seen)
    ELSE <<Head(out)>> \o DedupIndicators(Tail(out), seen \cup {IndicatorKey(Head(out))})

\* e.split("@")[1] || ""
EmailDomain(e) == IF Len(Split(e, "@")) >= 2 THEN Split(e, "@")[2] ELSE <<>>

\* function extractIndicators(text).  m holds what the four global pattern
\* matches return on text (emails, ips, domains, phones, each in text order).
extractIndicators(text, m) ==
    LET emails  == SetOrder([ix \in 1..Len(m.emails) |-> Lower(m.emails[ix])], {})
        ips     == SetOrder(m.ips, {})
        emailDomains == SelectSeq([ix \in 1..Len(emails) |-> EmailDomain(emails[ix])], LAMBDA d : d # <<>>)
        domains == SetOrder([ix \in 1..Len(m.domains) |-> Lower(m.domains[ix])] \o emailDomains, {})
        phones  == SelectSeq(SetOrder([ix \in 1..Len(m.phones) |-> normalizePhone(m.phones[ix])], {}),
                             LAMBDA x : x # <<>>)
        lines   == SelectSeq([ix \in 1..Len(Split(text, "\n")) |-> Trim(Split(text, "\n")[ix])],
                             LAMBDA l : l # <<>>)
        explicitAddress == Take(SelectSeq(lines, LAMBDA l : HasLabel(l, TAddress)), 1)
        addr    == IF explicitAddress # <<>>
                   THEN <<LabelRest(explicitAddress[1], TAddress)>>
                   ELSE Take(SelectSeq(lines, LAMBDA l : IsAddressLine(l)), 1)
        labelled == Take(SelectSeq(lines, LAMBDA l : HasLabel(l, <<"n","a","m","e">>)), 1)
        nameLine == IF labelled # <<>>
                    THEN <<LabelRest(labelled[1], <<"n","a","m","e">>)>>
                    ELSE Take(SelectSeq(lines, LAMBDA l : IsNameLine(l)), 1)
        o1 == addIndicators(<<>>, "email", Take(emails, 3))
        o2 == addIndicators(o1, "ip", Take(ips, 3))
        o3 == addIndicators(o2, "domain", Take(domains, 3))
        o4 == addIndicators(o3, "phone", Take(phones, 2))
        o5 == addIndicators(o4, "address", addr)
        o6 == addIndicators(o5, "name", nameLine)
    IN DedupIndicators(o6, {})

\* ------------------------------------------------------------ environment
\* What the run is given and what the network answers: small menus.
DomA   == <<"a",".","i","o">>
DomAUp == <<"A",".","i","o">>
DomB   == <<"b",".","i","o">>
DomBUp == <<"B",".","i","o">>
DomD   == <<"d",".","i","o">>
DomE   == <<"e",".","i","o">>
DomF   == <<"f",".","i","o">>
DomG   == <<"g",".","i","o">>
Ip1    == <<"1",".","1",".","1",".","1">>
Mail1  == <<"J","@","a",".","i","o">>
User1  == <<"j","d">>
User1Up == <<"J","d">>
OrgName == <<"O">>
CaseText == <<"K","@">> \o DomD
CaseDomains == << <<"p",".","i","o">>, <<"q",".","i","o">>, <<"r",".","i","o">> >>
CaseIps     == << <<"2",".","2",".","2",".","2">>, <<"3",".","3",".","3",".","3">>,
                  <<"4",".","4",".","4",".","4">> >>
CaseMails   == << <<"k","@">> \o CaseDomains[1], <<"l","@">> \o CaseDomains[1],
                  <<"m","@">> \o CaseDomains[1] >>
\* a case description of eight one-word lines
LongCaseText ==
    CaseIps[1] \o <<"\n">> \o CaseMails[1] \o <<"\n">> \o
    CaseIps[2] \o <<"\n">> \o CaseMails[2] \o <<"\n">> \o
    CaseIps[3] \o <<"\n">> \o CaseMails[3] \o <<"\n">> \o
    CaseDomains[2] \o <<"\n">> \o CaseDomains[3]

Failed == [ok |-> FALSE]
Ok(v) == [ok |-> TRUE, val |-> v]

NoMatches == [emails |-> <<>>, ips |-> <<>>, domains |-> <<>>, phones |-> <<>>]

\* input of the top-level call: {target, targetType?}, with the pattern
\* matches of the text for a case
TopInputs ==
    { [target |-> <<" ">> \o DomA, targetType |-> "undefined", m |-> NoMatches],
      [target |-> Ip1, targetType |-> "ip", m |-> NoMatches],
      [target |-> Mail1, targetType |-> "undefined", m |-> NoMatches],
      [target |-> User1, targetType |-> "undefined", m |-> NoMatches],
      [target |-> <<"1","2">>, targetType |-> "phone", m |-> NoMatches],
      [target |-> <<"1"," ","x">>, targetType |-> "undefined", m |-> NoMatches],
      [target |-> <<"j"," ","d">>, targetType |-> "undefined", m |-> NoMatches],
      [target |-> CaseText, targetType |-> "case",
       m |-> [emails |-> <<CaseText>>, ips |-> <<>>, domains |-> <<DomD>>, phones |-> <<>>]],
      [target |-> LongCaseText, targetType |-> "case",
       m |-> [emails |-> CaseMails, ips |-> CaseIps,
              domains |-> <<CaseDomains[1], CaseDomains[1]>> \o CaseDomains,
              phones |-> <<>>]] }

DepthOptions == {"undefined", "thorough"}
BudgetOptions == {Undef, 0, 1}

\* dns.resolve4 / resolve6 / resolveNs / resolveMx answers for a name
AnswersA(host) == IF Lower(host) = DomA THEN {Ok(<<Ip1>>)} ELSE {Failed}

AnswersAAAA(host) == IF Lower(host) = DomB THEN {Ok(<<Ip1>>)} ELSE {Failed}

AnswersNS(host, level) ==
    IF level >= MaxStack THEN {Failed}
    ELSE IF Lower(host) = DomA
         THEN {Failed, Ok(<<DomB>>), Ok(<<DomAUp, DomB, DomBUp, DomD, DomE, DomF, DomG>>)}
    ELSE IF Lower(host) = DomB THEN {Failed, Ok(<<DomAUp>>), Ok(<<DomD>>)}
    ELSE IF host = CaseDomains[3] THEN {Ok(<<CaseDomains[1]>>)}
    ELSE {Failed}

AnswersMX(host) == IF Lower(host) = DomA THEN {Ok(<<>>)} ELSE {Failed}

\* RDAP: the org the response names (rdap.name or the first remark), or none
AnswersRdap(t) ==
    IF Lower(t) = DomA THEN {Failed, Ok(OrgName)}
    ELSE IF t = Ip1 THEN {Failed, Ok(OrgName)}
    ELSE {Failed}

\* n rows of crt.sh, each with a name of its own
CertRows(n) ==
    [i \in 1..n |-> <<Lowers[((i - 1) \div Len(Lowers)) + 1], Lowers[((i - 1) % Len(Lowers)) + 1],
                      ".", "c">>]

\* crt.sh: the name_value fields of the rows
AnswersCrt(t) ==
    IF Lower(t) = DomA THEN {Failed, Ok(<< <<"w",".","a",".","i","o","\n"," ","A",".","i","o">>, <<"x">> >>)}
    ELSE IF Lower(t) = DomB THEN {Ok(<< DomB, DomB >>)}
    ELSE IF t = CaseDomains[2] THEN {Ok(CertRows(RiskSubdomainThreshold))}
    ELSE IF t \in {CaseDomains[1], CaseDomains[3]} THEN {Ok(CertRows(RiskSubdomainThreshold + 1))}
    ELSE {Failed}

\* api.github.com/users: company and blog of the profile
AnswersGithub(t) == {Failed, Ok([company |-> <<" ">> \o OrgName, blog |-> <<>>])}

\* Nominatim: the result array, each element {lat, lon, display_name}
AnswersNominatim(t) ==
    {Failed, Ok(<<>>), Ok(<<[lat |-> <<"1">>, lon |-> <<"2">>, display_name |-> <<" ","x">>]>>)}

\* Wikidata search: the id of the first hit, empty when there is none
AnswersWikidataSearch(t) == {Failed, Ok(<<>>), Ok(<<"Q">>)}

AnswersWikidataEntity(id) == {Failed, Ok(id)}

\* A web-search result as the orchestrator reads it: the url, the hostname and
\* the profile that URL parsing finds in it, and the pattern matches of the
\* title and snippet.
Result1 == [url |-> <<"u","1">>, hostname |-> <<"w","w","w",".">> \o DomB,
            username |-> User1, emails |-> <<Mail1, Mail1>>, phones |-> <<>>]
Result2 == [url |-> <<"u","2">>, hostname |-> DomB,
            username |-> User1Up, emails |-> <<>>, phones |-> <<<<"+","1"," ","2">>>>]

\* more results than the orchestrator reads of one answer, each with a URL
\* of its own that does not parse
ManyResults ==
    [i \in 1..(MaxResultsPerQuery + 1) |->
        [url |-> [j \in 1..i |-> "r"], hostname |-> <<>>, username |-> <<>>,
         emails |-> <<>>, phones |-> <<>>]]

\* names about which the network knows nothing
Unindexed == {CaseDomains[i] : i \in 1..3} \cup {CaseIps[i] : i \in 1..3}
             \cup {CaseMails[i] : i \in 1..3}

AnswersWebSearch(q) ==
    IF q.tmpl = "contact" /\ q.arg = CaseDomains[2] THEN {Ok(ManyResults)}
    ELSE IF q.arg \in Unindexed THEN {Ok(<<>>)}
    ELSE IF q.tmpl \in {"quoted", "site"} THEN {Failed, Ok(<<Result1, Result2>>)}
    ELSE {Ok(<<>>)}

\* ------------------------------------------------------------ invocations
Top == stack[Len(stack)]

SetTop(f) == [stack EXCEPT ![Len(stack)] = f]

Deadline(f) == f.startedAt + f.budgetMs

\* const outOfTime = () => Date.now() >= deadline
outOfTimeNever(f) == FALSE

outOfTimeStrict(f) == now > Deadline(f)

outOfTime(f) == now >= Deadline(f)

\* the source sections of a non-case invocation, in source order, and the
\* target types whose `if` lets them run
SectionOrder == <<"dns", "address", "name", "web", "leads", "phone", "rdap",
                  "crt", "github", "finish">>

Applies(sec, t) ==
    CASE sec = "dns"     -> t = "domain"
      [] sec = "address" -> t = "address"
      [] sec = "name"    -> t = "name"
      [] sec = "web"     -> t \in {"name", "username", "email", "phone", "domain", "ip"}
      [] sec = "leads"   -> TRUE
      [] sec = "phone"   -> t = "phone"
      [] sec = "rdap"    -> t \in {"domain", "ip"}
      [] sec = "crt"     -> t = "domain"
      [] sec = "github"  -> t = "username"
      [] sec = "finish"  -> TRUE

SectionIndex(sec) == IF sec = "entry" THEN 0
                     ELSE CHOOSE i \in 1..Len(SectionOrder) : SectionOrder[i] = sec

\* the sections run round: after lead-following, the web search again
NextSectionAround(t, sec) ==
    IF sec = "leads" /\ Applies("web", t) THEN "web"
    ELSE SectionOrder[CHOOSE i \in 1..Len(SectionOrder) :
                    /\ i > SectionIndex(sec) /\ Applies(SectionOrder[i], t)
                    /\ \A j \in (SectionIndex(sec) + 1)..(i - 1) : ~Applies(SectionOrder[j], t)]

\* the next section after sec whose `if` holds for type t
NextSection(t, sec) ==
    SectionOrder[CHOOSE i \in 1..Len(SectionOrder) :
                    /\ i > SectionIndex(sec) /\ Applies(SectionOrder[i], t)
                    /\ \A j \in (SectionIndex(sec) + 1)..(i - 1) : ~Applies(SectionOrder[j], t)]

\* lines 156-172: the locals of a fresh invocation
NewFrame(input, options, via) ==
    LET target == normalizeTarget(input.target)
        ttype  == IF input.targetType # "undefined" THEN input.targetType
                  ELSE guessTargetType(target)
        depth  == IF options.depth # "undefined" THEN options.depth ELSE "normal"
        startedAt == IF options.startedAtMs # Undef THEN options.startedAtMs ELSE now
        budgetMs  == IF options.timeBudgetMs # Undef THEN options.timeBudgetMs
                     ELSE IF depth = "thorough" THEN DefaultBudgetThorough
                     ELSE DefaultBudgetNormal
    IN [input |-> input, options |-> options, via |-> via,
        target |-> target, ttype |-> ttype, depth |-> depth,
        startedAt |-> startedAt, budgetMs |-> budgetMs,
        pc |-> IF ttype = "case" THEN "case" ELSE NextSection(ttype, "entry"),
        evidence |-> <<>>, entities |-> <<>>, riskDelta |-> 0,
        indicators |-> <<>>, queue |-> <<>>, seenFollow |-> {},
        dnsSummary |-> <<>>, leadItems |-> 0,
        \* the network requests this invocation has started and not yet seen
        \* settle, and when the last one was started
        pending |-> {}, sentAt |-> Undef,
        \* not in the code: when the probe's deadline check passed, how many
        \* evidence items lead-following has merged, the leads followed and
        \* the inputs of the sub-collections the case loop has started
        \* and the web-search queries the invocation has dispatched
        gateAt |-> Undef, followedDomains |-> <<>>, followedUsers |-> <<>>,
        collected |-> <<>>, dispatched |-> 0,
        \* and how many subdomains each crt.sh probe of the call tree below kept
        \* and the "Time budget reached" notices it has passed to step()
        crtKept |-> <<>>, notices |-> 0]

\* { ...options, depth, timeBudgetMs: budgetMs, _startedAtMs: startedAt }
CaseOptions(f) ==
    [f.options EXCEPT !.depth = f.depth, !.timeBudgetMs = f.budgetMs,
                      !.startedAtMs = f.startedAt]

LeadOptionsRestart(f) ==
    [f.options EXCEPT !.depth = "normal", !.skipWebSearch = TRUE,
                      !.timeBudgetMs = f.budgetMs, !.startedAtMs = Undef]

LeadOptionsSearching(f) ==
    [f.options EXCEPT !.depth = "normal",
                      !.timeBudgetMs = f.budgetMs, !.startedAtMs = f.startedAt]

\* { ...options, depth: "normal", skipWebSearch: true, timeBudgetMs: budgetMs,
\*   _startedAtMs: startedAt }
LeadOptions(f) ==
    [f.options EXCEPT !.depth = "normal", !.skipWebSearch = TRUE,
                      !.timeBudgetMs = f.budgetMs, !.startedAtMs = f.startedAt]

\* a network request the invocation f started at f.sentAt; ok is how it ends
Request(kind, f, ok) ==
    [kind |-> kind, late |-> f.sentAt >= Deadline(f),
     unchecked |-> f.gateAt = Undef \/ f.gateAt >= Deadline(f),
     skip |-> f.options.skipWebSearch, ok |-> ok]

\* the awaited request of invocation f settles
Log(kind, f, ok) ==
    /\ kind \in f.pending
    /\ netlog' = netlog \cup {Request(kind, f, ok)}

\* the invocation resumes as f after its request settled
Settle(kind, f) ==
    SetTop([f EXCEPT !.pending = @ \ {kind},
                     !.sentAt = IF f.pending \ {kind} = {} THEN Undef ELSE @])

\* the request awaited at a position of the code
RequestAt(pc) ==
    CASE pc = "webQuery"       -> "websearch"
      [] pc = "geocode"        -> "nominatim"
      [] pc = "rdapLookup"     -> "rdap"
      [] pc = "crtQuery"       -> "crtsh"
      [] pc = "githubLookup"   -> "github"
      [] pc \in {"resolve4", "resolve6", "resolveNs", "resolveMx",
                 "wikidataSearch", "wikidataEntity"} -> pc
      [] OTHER                 -> "none"

\* Promise.all over the four resolver calls
SendsAllDns(f) ==
    IF f.pc = "resolve4" THEN {"resolve4", "resolve6", "resolveNs", "resolveMx"}
    ELSE {RequestAt(f.pc)}

\* each request is created inside its own `await`: the invocation starts
\* the one request of its position and suspends until it settles
Sends(f) == {RequestAt(f.pc)}

\* the CollectionResult an invocation returns with entity list ents
Result(f, ents, exit) ==
    [evidence |-> f.evidence, entities |-> ents, riskDelta |-> f.riskDelta,
     confidence |-> computeConfidence(f.evidence),
     exit |-> exit, via |-> f.via, input |-> f.input, options |-> f.options,
     target |-> f.target, ttype |-> f.ttype, level |-> Len(stack),
     late |-> now >= Deadline(f), crtKept |-> f.crtKept, notices |-> f.notices]

\* the sub-result's evidence is put first
MergeInFront(p, r) ==
    [p EXCEPT !.evidence = r.evidence \o @, !.entities = @ \o r.entities,
              !.riskDelta = @ + r.riskDelta,
              !.crtKept = @ \o r.crtKept,
              !.leadItems = IF r.via = "lead" THEN @ + Len(r.evidence) ELSE @]

\* the sub-result's riskDelta is left out
MergeOwnRisk(p, r) ==
    [p EXCEPT !.evidence = @ \o r.evidence, !.entities = @ \o r.entities,
              !.crtKept = @ \o r.crtKept,
              !.leadItems = IF r.via = "lead" THEN @ + Len(r.evidence) ELSE @]

\* evidence.push(...r.evidence); entities.push(...r.entities); riskDelta += r.riskDelta
Merge(p, r) ==
    [p EXCEPT !.evidence = @ \o r.evidence, !.entities = @ \o r.entities,
              !.riskDelta = @ + r.riskDelta,
              !.crtKept = @ \o r.crtKept,
              !.leadItems = IF r.via = "lead" THEN @ + Len(r.evidence) ELSE @]

\* `return {evidence, entities: ents, riskDelta, confidence}` of the active
\* invocation f, and the caller's merge of it when there is a caller
Return(f, ents, exit) ==
    LET r == Result(f, ents, exit) IN
    /\ last' = r
    /\ IF Len(stack) = 1
       THEN stack' = <<>> /\ done' = TRUE
       ELSE /\ stack' = Append(SubSeq(stack, 1, Len(stack) - 2),
                               Merge(stack[Len(stack) - 1], r))
            /\ done' = done

\* await runSafeOsintCollection(input, options) made by the active invocation,
\* which resumes at pc when the callee has returned
Call(caller, input, options, via) ==
    /\ stack' = Append(SetTop(caller), NewFrame(input, options, via))
    /\ calls' = calls \cup {[via |-> via, late |-> now >= Deadline(caller)]}

\* The task ids handed to the queue; the row of "t0" is not in the store.
TaskIds == {"t0", "t1", "t2"}

\* jobs/queue.ts lines 43-45 (running, pending, pumpScheduled) with no task
\* enqueued yet, the stored rows (every stored task queued, as the route
\* creates it; the investigation's completedTasks 0, its schema default) and
\* the runTask activations under way. started, turned and enqueued count what
\* has happened.
IdleQueue ==
    [running |-> {}, pending |-> <<>>, pumpScheduled |-> FALSE,
     acts |-> <<>>,
     status |-> [t \in TaskIds |-> IF t = "t0" THEN "missing" ELSE "queued"],
     completedTasks |-> 0,
     enqueued |-> 0,
     started |-> [t \in TaskIds |-> 0],
     turned |-> [guard |-> 0, status |-> 0]]

Init ==
    /\ jobs = IdleQueue
    /\ stack = <<>>
    /\ now = 0
    /\ provider \in BOOLEAN
    /\ last = NoResult
    /\ done = FALSE
    /\ netlog = {}
    /\ calls = {}
    /\ pure = Idle
    /\ rejected = "none"

\* a caller invokes runSafeOsintCollection(input, {depth, timeBudgetMs})
StartRunWith(inputs) ==
    /\ stack = <<>> /\ ~done /\ rejected = "none"
    /\ \E input \in inputs, depth \in DepthOptions, budget \in BudgetOptions :
          stack' = <<NewFrame(input,
                              [depth |-> depth, timeBudgetMs |-> budget,
                               skipWebSearch |-> FALSE, startedAtMs |-> Undef],
                              "top")>>
    /\ UNCHANGED <<jobs, pure, rejected, now, provider, last, done, netlog, calls>>

StartRun == StartRunWith(TopInputs)

\* the clock advances while the run is suspended or computing
Tick ==
    /\ stack # <<>>
    /\ now < MaxClock
    /\ now' = now + 1
    /\ UNCHANGED <<jobs, pure, rejected, stack, provider, last, done, netlog, calls>>

\* the active invocation starts the request of its position (fetchJson's
\* fetch at line 46, the resolver calls of lines 315-327, searchWeb)
Send ==
    /\ stack # <<>>
    /\ RequestAt(Top.pc) # "none" /\ RequestAt(Top.pc) \notin Top.pending
    /\ stack' = SetTop([Top EXCEPT
           !.pending = @ \cup Sends(Top), !.sentAt = now,
           !.dispatched = IF RequestAt(Top.pc) = "websearch" THEN @ + 1 ELSE @])
    /\ UNCHANGED <<jobs, pure, rejected, now, provider, last, done, netlog, calls>>

\* The points at which the active invocation f awaits step(...), lines 163-165:
\* 202, 248, 273, 276, 312, 343, 383, 463, 482, 495, 511, 541, 583 and 611.
AtStep(f) ==
    \/ /\ f.pc \in {"webQuery", "case", "caseCall", "resolve4", "geocode", "wikidataSearch",
                    "leadDomainCall", "leadUserCall", "phone", "rdapLookup", "crtQuery",
                    "githubLookup"}
       /\ f.pending = {}
    \/ f.pc = "caseLoop" /\ f.queue # <<>> /\ outOfTime(f)
    \/ f.pc = "finish" /\ f.ttype = "email"

\* an exception that leaves the active invocation: no caller catches the
\* rejection of an awaited runSafeOsintCollection (lines 277, 464, 483), so
\* it rejects the whole call tree
Throw(why) ==
    /\ stack' = <<>>
    /\ rejected' = why

\* `await options.onStep(s)` throws or rejects: step has no try/catch
StepThrows ==
    /\ stack # <<>> /\ AtStep(Top)
    /\ Throw("onStep")
    /\ UNCHANGED <<jobs, pure, now, provider, last, done, netlog, calls>>

\* ---------------------------------------------------------- the case branch
\* lines 244-270: extract the indicators and record the two intake items
CaseIntake ==
    /\ stack # <<>> /\ Top.pc = "case"
    /\ LET f == Top
           text == Trim(f.input.target)
           indicators == extractIndicators(text, f.input.m)
           maxTotal == IF f.depth = "thorough" THEN CaseMaxThorough ELSE CaseMaxNormal
       IN stack' = SetTop([f EXCEPT
              !.indicators = indicators,
              !.evidence = @ \o <<Ev("json", "Case description (input)", text, "Case Intake", 900),
                                  Ev("json", "Extracted indicators", <<>>, "Parser", 700)>>,
              !.queue = Take(indicators, maxTotal),
              !.pc = "caseLoop"])
    /\ UNCHANGED <<jobs, pure, rejected, now, provider, last, done, netlog, calls>>

\* lines 271-276: the head of the sub-collection loop
CaseLoop ==
    /\ stack # <<>> /\ Top.pc = "caseLoop"
    /\ LET f == Top IN
       stack' = SetTop(
           IF f.queue = <<>> THEN [f EXCEPT !.pc = "web"]
           ELSE IF outOfTime(f) THEN [f EXCEPT !.pc = "web", !.notices = @ + 1]
           ELSE [f EXCEPT !.pc = "caseCall", !.gateAt = now])
    /\ UNCHANGED <<jobs, pure, rejected, now, provider, last, done, netlog, calls>>

\* the sub-collection is given the value alone and guesses its type
CaseCallUntyped ==
    /\ stack # <<>> /\ Top.pc = "caseCall"
    /\ LET f == Top
           ind == Head(f.queue)
           input == [target |-> ind.value, targetType |-> "undefined", m |-> NoMatches]
       IN Call([f EXCEPT !.queue = Tail(@), !.pc = "caseLoop", !.gateAt = Undef,
                         !.collected = Append(@, input)],
               input, CaseOptions(f), "case")
    /\ UNCHANGED <<jobs, pure, rejected, now, provider, last, done, netlog>>

\* lines 277-280: the sub-collection of one indicator
CaseCall ==
    /\ stack # <<>> /\ Top.pc = "caseCall"
    /\ LET f == Top
           ind == Head(f.queue)
           input == [target |-> ind.value, targetType |-> ind.type, m |-> NoMatches]
       IN Call([f EXCEPT !.queue = Tail(@), !.pc = "caseLoop", !.gateAt = Undef,
                         !.collected = Append(@, input)],
               input, CaseOptions(f), "case")
    /\ UNCHANGED <<jobs, pure, rejected, now, provider, last, done, netlog>>

\* lines 297-306: de-duplicate and return
CaseReturn ==
    /\ stack # <<>> /\ Top.pc = "caseEnd"
    /\ Return(Top, DedupEntities(Top.entities), "case")
    /\ UNCHANGED <<jobs, pure, rejected, now, provider, netlog, calls>>

\* ---------------------------------------------------------------- web search
Query(tmpl, arg) == [tmpl |-> tmpl, arg |-> arg]

\* lines 287-294: the queries of the case branch
CaseQueries(f) ==
    LET primary == Take(SelectSeq(f.indicators,
                                  LAMBDA i : i.type \in {"name", "username", "email", "domain"}),
                        IF f.depth = "thorough" THEN CasePrimaryThorough ELSE CasePrimaryNormal)
    IN [ix \in 1..Len(primary) |->
          Query(IF primary[ix].type = "domain" THEN "site" ELSE "quoted", primary[ix].value)]

\* lines 428-445: the queries of a typed target
TypeQueries(f) ==
    LET t == f.target IN
    CASE f.ttype = "name"     -> <<Query("quoted", t), Query("profile", t)>>
      [] f.ttype = "username" -> <<Query("quoted", t), Query("instagram", t), Query("facebook", t)>>
      [] f.ttype = "email"    -> <<Query("quoted", t)>>
      [] f.ttype = "phone"    -> <<Query("quoted", IF normalizePhone(t) # <<>> THEN normalizePhone(t) ELSE t)>>
      [] f.ttype = "domain"   -> <<Query("site", t), Query("contact", t)>>
      [] f.ttype = "ip"       -> <<Query("quoted", t)>>

AfterWeb(f) == IF f.ttype = "case" THEN "caseEnd" ELSE "leads"

\* the head of maybeWebSearch without the check of the provider
WebSearchBeginUnconfigured ==
    /\ stack # <<>> /\ Top.pc = "web"
    /\ LET f == Top
           queries == IF f.ttype = "case" THEN CaseQueries(f) ELSE TypeQueries(f)
           maxQueries == IF f.depth = "thorough" THEN MaxQueriesThorough ELSE MaxQueriesNormal
       IN stack' = SetTop(
            IF queries = <<>> \/ outOfTime(f) \/ f.options.skipWebSearch
            THEN [f EXCEPT !.pc = AfterWeb(f)]
            ELSE [f EXCEPT !.pc = "webLoop", !.queue = Take(queries, maxQueries)])
    /\ UNCHANGED <<jobs, pure, rejected, now, provider, last, done, netlog, calls>>

\* lines 180-199: the head of maybeWebSearch(queries, label)
WebSearchBegin ==
    /\ stack # <<>> /\ Top.pc = "web"
    /\ LET f == Top
           queries == IF f.ttype = "case" THEN CaseQueries(f) ELSE TypeQueries(f)
           maxQueries == IF f.depth = "thorough" THEN MaxQueriesThorough ELSE MaxQueriesNormal
       IN stack' = SetTop(
            IF queries = <<>> \/ outOfTime(f) \/ f.options.skipWebSearch
            THEN [f EXCEPT !.pc = AfterWeb(f)]
            ELSE IF ~provider
            THEN [f EXCEPT !.pc = AfterWeb(f),
                           !.evidence = Append(@, Ev("json", "Web search skipped (no provider configured)",
                                                     <<>>, "Web Search", 50))]
            ELSE [f EXCEPT !.pc = "webLoop", !.queue = Take(queries, maxQueries)])
    /\ UNCHANGED <<jobs, pure, rejected, now, provider, last, done, netlog, calls>>

\* lines 200-202: the head of the query loop
WebLoop ==
    /\ stack # <<>> /\ Top.pc = "webLoop"
    /\ LET f == Top IN
       stack' = SetTop(
            IF f.queue = <<>> \/ outOfTime(f)
            THEN [f EXCEPT !.pc = AfterWeb(f), !.queue = <<>>]
            ELSE [f EXCEPT !.pc = "webQuery", !.gateAt = now])
    /\ UNCHANGED <<jobs, pure, rejected, now, provider, last, done, netlog, calls>>

\* hostname.replace(/^www\./i, "")
StripWww(h) == IF StartsWith(Lower(h), <<"w","w","w",".">>) THEN Drop(h, 4) ELSE h

\* lines 218-228: the entities of one result
ResultEntities(entities, r) ==
    LET e1 == IF r.url # <<>> THEN addEntity(entities, TUrl, r.url, "web-search") ELSE entities
        e2 == IF r.hostname # <<>>
              THEN addEntity(e1, TDomain, StripWww(r.hostname), "web-search-url") ELSE e1
        e3 == IF r.username # <<>>
              THEN addEntity(e2, TUsername, r.username, "web-search-profile") ELSE e2
        e4 == addEntities(e3, TEmail, [ix \in 1..Len(Take(SetOrder(r.emails, {}), 3)) |->
                              Lower(SetOrder(r.emails, {})[ix])], "web-search")
    IN addEntities(e4, TPhone, [ix \in 1..Len(Take(SetOrder(r.phones, {}), 2)) |->
                              normalizePhone(SetOrder(r.phones, {})[ix])], "web-search")

RECURSIVE ResultsEntities(_, _)
ResultsEntities(entities, results) ==
    IF results = <<>> THEN entities
    ELSE ResultsEntities(ResultEntities(entities, Head(results)), Tail(results))

\* every result of the answer is read
ProcessedResultsAll(results) == results

\* results.slice(0, 10)
ProcessedResults(results) == Take(results, MaxResultsPerQuery)

\* lines 203-239: one query and what is recorded of its answer
WebQuery ==
    /\ stack # <<>> /\ Top.pc = "webQuery"
    /\ LET f == Top
           q == Head(f.queue)
       IN /\ \E ans \in AnswersWebSearch(q) :
               Log("websearch", f, ans.ok) /\ stack' = Settle("websearch", 
                 IF ans.ok
                 THEN [f EXCEPT
                        !.evidence = Append(@, Ev("json", "Web search results", q.arg, "Web Search",
                                                  IF ans.val # <<>> THEN 450 ELSE 150)),
                        !.entities = ResultsEntities(@, ProcessedResults(ans.val)),
                        !.queue = Tail(@), !.pc = "webLoop", !.gateAt = Undef]
                 ELSE [f EXCEPT
                        !.evidence = Append(@, Ev("text", "Web search failed", q.arg, "Web Search", 100)),
                        !.queue = Tail(@), !.pc = "webLoop", !.gateAt = Undef])
    /\ UNCHANGED <<jobs, pure, rejected, now, provider, last, done, calls>>

\* ------------------------------------------------------------------- DNS
GateRecordsSkip(f, exit, next) ==
    /\ IF outOfTime(f)
       THEN Return([f EXCEPT !.evidence = Append(@, Ev("text", "Skipped (time budget)", f.target, exit, 100))],
                   f.entities, exit)
       ELSE /\ stack' = SetTop([f EXCEPT !.pc = next, !.gateAt = now])
            /\ UNCHANGED <<last, done>>
    /\ UNCHANGED <<jobs, pure, rejected, now, provider, netlog, calls>>

\* a probe's deadline check in the active invocation f: return what has
\* accumulated, or go on to the probe's first request
Gate(f, exit, next) ==
    /\ IF outOfTime(f)
       THEN Return(f, f.entities, exit)
       ELSE /\ stack' = SetTop([f EXCEPT !.pc = next, !.gateAt = now])
            /\ UNCHANGED <<last, done>>
    /\ UNCHANGED <<jobs, pure, rejected, now, provider, netlog, calls>>

\* lines 310-312
DnsGate ==
    /\ stack # <<>> /\ Top.pc = "dns"
    /\ Gate(Top, "dns", "resolve4")

ResolveUncaught(f, kind, answers, entityType, next) ==
    /\ \E ans \in answers :
         /\ Log(kind, f, ans.ok)
         /\ IF ans.ok
            THEN /\ stack' = Settle(kind, [f EXCEPT
                        !.entities = addEntities(@, entityType, ans.val, "none"),
                        !.dnsSummary = Append(@, kind),
                        !.pc = next])
                 /\ UNCHANGED rejected
            ELSE Throw("network")
    /\ UNCHANGED <<jobs, pure, now, provider, last, done, calls>>

\* one resolver call of lines 314-325 in the active invocation f, and the
\* entities made of its answer
Resolve(f, kind, answers, entityType, next) ==
    /\ \E ans \in answers :
         Log(kind, f, ans.ok) /\ stack' = Settle(kind, [f EXCEPT
             !.entities = IF ans.ok THEN addEntities(@, entityType, ans.val, "none") ELSE @,
             !.dnsSummary = IF ans.ok THEN Append(@, kind) ELSE @,
             !.pc = next])
    /\ UNCHANGED <<jobs, pure, rejected, now, provider, last, done, calls>>

\* lines 314-317
Resolve4 ==
    /\ stack # <<>> /\ Top.pc = "resolve4"
    /\ Resolve(Top, "resolve4", AnswersA(Top.target), TIp, "resolve6")

\* lines 318-321
Resolve6 ==
    /\ stack # <<>> /\ Top.pc = "resolve6"
    /\ Resolve(Top, "resolve6", AnswersAAAA(Top.target), TIp, "resolveNs")

\* lines 322-325
ResolveNs ==
    /\ stack # <<>> /\ Top.pc = "resolveNs"
    /\ Resolve(Top, "resolveNs", AnswersNS(Top.target, Len(stack)), TDomain, "resolveMx")

\* lines 326-337: the last resolver call and the DNS evidence item
ResolveMx ==
    /\ stack # <<>> /\ Top.pc = "resolveMx"
    /\ LET f == Top IN
       /\ \E ans \in AnswersMX(f.target) :
            Log("resolveMx", f, ans.ok) /\ stack' = Settle("resolveMx", [f EXCEPT
                !.evidence = Append(@, [Ev("json", "DNS records for", f.target, "DNS", 900)
                                          EXCEPT !.content = IF ans.ok
                                                             THEN Append(f.dnsSummary, "resolveMx")
                                                             ELSE f.dnsSummary]),
                !.dnsSummary = <<>>,
                !.pc = NextSection(f.ttype, "dns"), !.gateAt = Undef])
    /\ UNCHANGED <<jobs, pure, rejected, now, provider, last, done, calls>>

\* ------------------------------------------------------------- geocoding
\* lines 341-343
AddressGate ==
    /\ stack # <<>> /\ Top.pc = "address"
    /\ Gate(Top, "address", "geocode")

\* lines 345-377
Geocode ==
    /\ stack # <<>> /\ Top.pc = "geocode"
    /\ LET f == Top IN
       /\ \E ans \in AnswersNominatim(f.target) :
            Log("nominatim", f, ans.ok) /\ stack' = Settle("nominatim", 
              IF ans.ok
              THEN LET top == ans.val[1]
                       e1 == IF ans.val # <<>> /\ top.lat # <<>> /\ top.lon # <<>>
                             THEN addEntity(f.entities, TLocation, top.lat \o <<",">> \o top.lon, "none")
                             ELSE f.entities
                       e2 == IF ans.val # <<>> /\ top.display_name # <<>>
                             THEN addEntity(e1, TAddress, top.display_name, "none") ELSE e1
                   IN [f EXCEPT
                        !.evidence = Append(@, Ev("json", "Address geocode (Nominatim)", f.target,
                                                  "OpenStreetMap Nominatim",
                                                  IF ans.val # <<>> THEN 800 ELSE 200)),
                        !.entities = e2,
                        !.pc = NextSection(f.ttype, "address"), !.gateAt = Undef]
              ELSE [f EXCEPT
                        !.evidence = Append(@, Ev("text", "Address geocode failed", <<>>,
                                                  "OpenStreetMap Nominatim", 100)),
                        !.pc = NextSection(f.ttype, "address"), !.gateAt = Undef])
    /\ UNCHANGED <<jobs, pure, rejected, now, provider, last, done, calls>>

\* --------------------------------------------------------------- Wikidata
\* lines 381-383
NameGate ==
    /\ stack # <<>> /\ Top.pc = "name"
    /\ Gate(Top, "name", "wikidataSearch")

WikidataFailedAsFound(f) ==
    [f EXCEPT !.evidence = Append(@, Ev("text", "Wikidata lookup failed", <<>>, "Wikidata", 600)),
              !.entities = addEntity(@, TPerson, f.target, "none"),
              !.queue = <<>>,
              !.pc = NextSection(f.ttype, "name"), !.gateAt = Undef]

\* lines 413-423: the catch of the Wikidata probe
WikidataFailed(f) ==
    [f EXCEPT !.evidence = Append(@, Ev("text", "Wikidata lookup failed", <<>>, "Wikidata", 100)),
              !.entities = addEntity(@, TPerson, f.target, "none"),
              !.queue = <<>>,
              !.pc = NextSection(f.ttype, "name"), !.gateAt = Undef]

\* lines 384-398 and 410-423: the search call
WikidataSearch ==
    /\ stack # <<>> /\ Top.pc = "wikidataSearch"
    /\ LET f == Top IN
       /\ \E ans \in AnswersWikidataSearch(f.target) :
            Log("wikidataSearch", f, ans.ok) /\ stack' = Settle("wikidataSearch", 
              IF ~ans.ok THEN WikidataFailed(f)
              ELSE LET g == [f EXCEPT !.evidence = Append(@, Ev("json", "Wikidata search", f.target,
                                                                "Wikidata", 500))]
                   IN IF ans.val # <<>>
                      THEN [g EXCEPT !.queue = <<ans.val>>, !.pc = "wikidataEntity"]
                      ELSE [g EXCEPT !.entities = addEntity(@, TPerson, f.target, "none"),
                                     !.pc = NextSection(f.ttype, "name"), !.gateAt = Undef])
    /\ UNCHANGED <<jobs, pure, rejected, now, provider, last, done, calls>>

\* lines 399-409 and 413-423: the entity call for the first hit
WikidataEntity ==
    /\ stack # <<>> /\ Top.pc = "wikidataEntity"
    /\ LET f == Top IN
       /\ \E ans \in AnswersWikidataEntity(Head(f.queue)) :
            Log("wikidataEntity", f, ans.ok) /\ stack' = Settle("wikidataEntity", 
              IF ~ans.ok THEN WikidataFailed(f)
              ELSE [f EXCEPT
                      !.evidence = Append(@, Ev("json", "Wikidata entity", Head(f.queue), "Wikidata", 600)),
                      !.entities = addEntity(@, TPerson, f.target, "wikidataId"),
                      !.queue = <<>>,
                      !.pc = NextSection(f.ttype, "name"), !.gateAt = Undef])
    /\ UNCHANGED <<jobs, pure, rejected, now, provider, last, done, calls>>

\* ---------------------------------------------------------- lead-following
followMax(f) == IF f.depth = "thorough" THEN FollowMaxThorough ELSE FollowMaxNormal

ValuesOfType(entities, entityType) ==
    LET matching == SelectSeq(entities, LAMBDA e : e.entityType = entityType)
    IN [ix \in 1..Len(matching) |-> matching[ix].value]

\* lines 454-456 and 473-475: the leads of one category
LeadsUncapped(f, entityType) ==
    SelectSeq(uniqueByValue(ValuesOfType(f.entities, entityType)),
              LAMBDA d : d # <<>> /\ Lower(d) # Lower(f.target))

LeadsToFollow(f, entityType) ==
    Take(SelectSeq(uniqueByValue(ValuesOfType(f.entities, entityType)),
                   LAMBDA d : d # <<>> /\ Lower(d) # Lower(f.target)),
         followMax(f))

\* lines 450-457
LeadsBegin ==
    /\ stack # <<>> /\ Top.pc = "leads"
    /\ LET f == Top IN
       stack' = SetTop(
         IF outOfTime(f) THEN [f EXCEPT !.pc = NextSection(f.ttype, "leads")]
         ELSE [f EXCEPT !.seenFollow = {}, !.queue = LeadsToFollow(f, TDomain),
                        !.pc = "leadDomains"])
    /\ UNCHANGED <<jobs, pure, rejected, now, provider, last, done, netlog, calls>>

\* lines 458-463 and, when the loop ends, 473-475
LeadDomainLoop ==
    /\ stack # <<>> /\ Top.pc = "leadDomains"
    /\ LET f == Top
           key == Lower(TDomain \o <<":">> \o Head(f.queue))
       IN stack' = SetTop(
            IF f.queue = <<>> \/ outOfTime(f)
            THEN [f EXCEPT !.queue = LeadsToFollow(f, TUsername), !.pc = "leadUsers"]
            ELSE IF key \in f.seenFollow THEN [f EXCEPT !.queue = Tail(@)]
            ELSE [f EXCEPT !.seenFollow = @ \cup {key}, !.pc = "leadDomainCall"])
    /\ UNCHANGED <<jobs, pure, rejected, now, provider, last, done, netlog, calls>>

\* lines 464-467
LeadDomainCall ==
    /\ stack # <<>> /\ Top.pc = "leadDomainCall"
    /\ LET f == Top
           d == Head(f.queue)
       IN Call([f EXCEPT !.queue = Tail(@), !.pc = "leadDomains",
                         !.followedDomains = Append(@, d)],
               [target |-> d, targetType |-> "domain", m |-> NoMatches],
               LeadOptions(f), "lead")
    /\ UNCHANGED <<jobs, pure, rejected, now, provider, last, done, netlog>>

\* lines 477-482
LeadUserLoop ==
    /\ stack # <<>> /\ Top.pc = "leadUsers"
    /\ LET f == Top
           key == Lower(TUsername \o <<":">> \o Head(f.queue))
       IN stack' = SetTop(
            IF f.queue = <<>> \/ outOfTime(f)
            THEN [f EXCEPT !.queue = <<>>, !.pc = NextSection(f.ttype, "leads")]
            ELSE IF key \in f.seenFollow THEN [f EXCEPT !.queue = Tail(@)]
            ELSE [f EXCEPT !.seenFollow = @ \cup {key}, !.pc = "leadUserCall"])
    /\ UNCHANGED <<jobs, pure, rejected, now, provider, last, done, netlog, calls>>

\* lines 483-486
LeadUserCall ==
    /\ stack # <<>> /\ Top.pc = "leadUserCall"
    /\ LET f == Top
           u == Head(f.queue)
       IN Call([f EXCEPT !.queue = Tail(@), !.pc = "leadUsers",
                         !.followedUsers = Append(@, u)],
               [target |-> u, targetType |-> "username", m |-> NoMatches],
               LeadOptions(f), "lead")
    /\ UNCHANGED <<jobs, pure, rejected, now, provider, last, done, netlog>>

\* -------------------------------------------------- the remaining sections
\* lines 494-506
PhoneNormalize ==
    /\ stack # <<>> /\ Top.pc = "phone"
    /\ LET f == Top
           normalized == normalizePhone(f.target)
       IN stack' = SetTop([f EXCEPT
            !.evidence = Append(@, Ev("json", "Phone normalization", f.target, "Parser",
                                      IF normalized # <<>> THEN 700 ELSE 300)),
            !.entities = addEntity(@, TPhone, IF normalized # <<>> THEN normalized ELSE f.target, "none"),
            !.pc = NextSection(f.ttype, "phone")])
    /\ UNCHANGED <<jobs, pure, rejected, now, provider, last, done, netlog, calls>>

\* lines 509-511
RdapGate ==
    /\ stack # <<>> /\ Top.pc = "rdap"
    /\ Gate(Top, "rdap", "rdapLookup")

\* lines 512-535
Rdap ==
    /\ stack # <<>> /\ Top.pc = "rdapLookup"
    /\ LET f == Top IN
       /\ \E ans \in AnswersRdap(f.target) :
            Log("rdap", f, ans.ok) /\ stack' = Settle("rdap", 
              IF ans.ok
              THEN [f EXCEPT
                     !.evidence = Append(@, Ev("json", "RDAP lookup for", f.target, "RDAP", 900)),
                     !.entities = IF Trim(ans.val) # <<>>
                                  THEN addEntity(@, TOrg, Trim(ans.val), "none") ELSE @,
                     !.pc = NextSection(f.ttype, "rdap"), !.gateAt = Undef]
              ELSE [f EXCEPT
                     !.evidence = Append(@, Ev("text", "RDAP lookup failed for", f.target, "RDAP", 100)),
                     !.pc = NextSection(f.ttype, "rdap"), !.gateAt = Undef])
    /\ UNCHANGED <<jobs, pure, rejected, now, provider, last, done, calls>>

\* lines 539-541
CrtGate ==
    /\ stack # <<>> /\ Top.pc = "crt"
    /\ Gate(Top, "crt", "crtQuery")

\* lines 546-555: the distinct cleaned names of all rows, in first-seen order
RECURSIVE CrtNames(_)
CrtNames(rows) ==
    IF rows = <<>> THEN <<>>
    ELSE SelectSeq([ix \in 1..Len(Split(Head(rows), "\n")) |->
                       Lower(Trim(Split(Head(rows), "\n")[ix]))],
                   LAMBDA c : c # <<>> /\ Includes(c, "."))
         \o CrtNames(Tail(rows))

\* lines 542-577
CrtSh ==
    /\ stack # <<>> /\ Top.pc = "crtQuery"
    /\ LET f == Top IN
       /\ \E ans \in AnswersCrt(f.target) :
            Log("crtsh", f, ans.ok) /\ stack' = Settle("crtsh", 
              IF ans.ok
              THEN LET subdomains == Take(SetOrder(CrtNames(ans.val), {}), MaxSubdomains) IN
                   [f EXCEPT
                     !.entities = addEntities(@, TDomain, subdomains, "none"),
                     !.riskDelta = IF Len(subdomains) > RiskSubdomainThreshold
                                   THEN @ + RiskSubdomainDelta ELSE @,
                     !.crtKept = Append(@, Len(subdomains)),
                     !.evidence = Append(@, Ev("json", "Certificate Transparency (crt.sh) for",
                                               f.target, "crt.sh", 700)),
                     !.pc = NextSection(f.ttype, "crt"), !.gateAt = Undef]
              ELSE [f EXCEPT
                     !.evidence = Append(@, Ev("text", "crt.sh query failed for", f.target, "crt.sh", 200)),
                     !.pc = NextSection(f.ttype, "crt"), !.gateAt = Undef])
    /\ UNCHANGED <<jobs, pure, rejected, now, provider, last, done, calls>>

\* lines 581-583
GithubGate ==
    /\ stack # <<>> /\ Top.pc = "github"
    /\ Gate(Top, "github", "githubLookup")

\* lines 584-606
Github ==
    /\ stack # <<>> /\ Top.pc = "githubLookup"
    /\ LET f == Top IN
       /\ \E ans \in AnswersGithub(f.target) :
            Log("github", f, ans.ok) /\ stack' = Settle("github", 
              IF ans.ok
              THEN LET e1 == IF ans.val.company # <<>>
                             THEN addEntity(f.entities, TOrg, ans.val.company, "none")
                             ELSE f.entities
                       e2 == IF ans.val.blog # <<>>
                             THEN addEntity(e1, TUrl, ans.val.blog, "none") ELSE e1
                   IN [f EXCEPT
                        !.evidence = Append(@, Ev("json", "GitHub user profile", f.target, "GitHub", 800)),
                        !.entities = e2,
                        !.pc = NextSection(f.ttype, "github"), !.gateAt = Undef]
              ELSE [f EXCEPT
                        !.evidence = Append(@, Ev("text", "GitHub user lookup failed", f.target, "GitHub", 200)),
                        !.pc = NextSection(f.ttype, "github"), !.gateAt = Undef])
    /\ UNCHANGED <<jobs, pure, rejected, now, provider, last, done, calls>>

\* lines 610-623: the email normalization of an email target
EmailNormalized(f) ==
    LET email == Lower(f.target)
        domain == EmailDomain(email)
    IN [f EXCEPT
         !.evidence = Append(@, Ev("json", "Email normalization", email, "Parser", 700)),
         !.entities = IF domain # <<>> THEN addEntity(@, TDomain, domain, "none") ELSE @]

\* lines 610-634: email normalization, de-duplication and the final return
Finish ==
    /\ stack # <<>> /\ Top.pc = "finish"
    /\ LET f == IF Top.ttype = "email" THEN EmailNormalized(Top) ELSE Top IN
       Return(f, DedupEntities(f.entities), "end")
    /\ UNCHANGED <<jobs, pure, rejected, now, provider, netlog, calls>>

Next ==
    \/ StartRun \/ Tick \/ Send \/ StepThrows
    \/ CaseIntake \/ CaseLoop \/ CaseCall \/ CaseReturn
    \/ WebSearchBegin \/ WebLoop \/ WebQuery
    \/ DnsGate \/ Resolve4 \/ Resolve6 \/ ResolveNs \/ ResolveMx
    \/ AddressGate \/ Geocode
    \/ NameGate \/ WikidataSearch \/ WikidataEntity
    \/ LeadsBegin \/ LeadDomainLoop \/ LeadDomainCall \/ LeadUserLoop \/ LeadUserCall
    \/ PhoneNormalize
    \/ RdapGate \/ Rdap
    \/ CrtGate \/ CrtSh
    \/ GithubGate \/ Github
    \/ Finish

Spec == Init /\ [][Next]_vars

\* ------------------------------------------------------- the run under way
\* The steps of the run itself: every awaited request settles (fetchJson
\* aborts its fetch after its timeout, lines 43-59; the resolver calls of
\* lines 315-327 reject on failure) and the code between two awaits runs to
\* the next one.
RunStep ==
    \/ Send
    \/ CaseIntake \/ CaseLoop \/ CaseCall \/ CaseReturn
    \/ WebSearchBegin \/ WebLoop \/ WebQuery
    \/ DnsGate \/ Resolve4 \/ Resolve6 \/ ResolveNs \/ ResolveMx
    \/ AddressGate \/ Geocode
    \/ NameGate \/ WikidataSearch \/ WikidataEntity
    \/ LeadsBegin \/ LeadDomainLoop \/ LeadDomainCall \/ LeadUserLoop \/ LeadUserCall
    \/ PhoneNormalize
    \/ RdapGate \/ Rdap
    \/ CrtGate \/ CrtSh
    \/ GithubGate \/ Github
    \/ Finish

\* A run under way always has a step to take (an awaited promise settles, the
\* code after it runs), so weak fairness of RunStep is: the run is over
\* again and again, or it takes steps again and again.
RunProgress == []<>(stack = <<>>) \/ []<><<RunStep>>_vars

\* the runs followed to their end: every kind of target, and the case of
\* many indicators
LiveInputs == {input \in TopInputs : input.target # CaseText}

StartRunLive == StartRunWith(LiveInputs)

NextLive == StartRunLive \/ Tick \/ StepThrows \/ RunStep

\* the run whose requests all complete and whose clock keeps advancing
SpecLive == Init /\ [][NextLive]_vars /\ RunProgress /\ WF_vars(Tick)

\* ------------------------------------------------ de-duplication on its own
\* The entity lists the de-duplication is applied to: every list of at most
\* MaxEntities entities of the pool.
MaxEntities == 3

EntityPool ==
    { [entityType |-> TDomain, value |-> DomB, metadata |-> "none"],
      [entityType |-> TDomain, value |-> DomBUp, metadata |-> "web-search-url"],
      [entityType |-> <<"D","o","m","a","i","n">>, value |-> DomB, metadata |-> "web-search"],
      [entityType |-> TIp, value |-> DomB, metadata |-> "none"],
      [entityType |-> TUsername, value |-> User1, metadata |-> "web-search-profile"] }

EntityLists == UNION {[1..n -> EntityPool] : n \in 0..MaxEntities}

ApplyDedup ==
    /\ pure = Idle
    /\ \E input \in EntityLists :
          pure' = [op |-> "dedup", in |-> input, out |-> DedupEntities(input)]
    /\ UNCHANGED <<jobs, stack, now, provider, last, done, netlog, calls, rejected>>

InitDedup == Init /\ provider = FALSE

SpecDedup == InitDedup /\ [][ApplyDedup]_vars

\* ------------------------------------------------ pure helpers on their own
\* The tokens case descriptions are made of, per pattern that matches them.
\* A description is one line of tokens joined by ";", which no pattern
\* matches across, followed by the lines of one element of lines.
ExtractPool ==
    [emails  |-> <<CaseMails[1], <<"K","@">> \o CaseDomains[1], CaseMails[2], CaseMails[3],
                   <<"n","@">> \o CaseDomains[1]>>,
     ips     |-> CaseIps \o <<Ip1>>,
     domains |-> <<CaseDomains[2], <<"Q",".","i","o">>, CaseDomains[3], DomB, DomD>>,
     phones  |-> <<<<"5","5","5","-","1","2","3","-","4","5","6","7">>, <<"5","5","5",".","1","2","3",".","4","5","6","7">>, <<"5","5","5","-","1","2","3","-","4","5","6","8">>, <<"+","1","5","5","5","1","2","3","4","5","6","9">>>>,
     lines   |-> {<<>>, <<"N","a","m","e",":"," ","J"," ","D","\n","k"," ","e">>, <<"A","d","d","r","e","s","s",":"," ","2"," ","y","\n","1"," ","x"," ","s","t">>, <<"j"," ","d","\n","3"," ","y"," ","r","d",","," ","z">>}]

\* The descriptions extractIndicators is applied to, each with what the four
\* global pattern matches return on it: a prefix of each token list, emails
\* first, then ips, domains and phones.  The domain pattern also matches the
\* domain of every email.
ExtractInputs ==
    { LET tokens == Take(ExtractPool.emails, ne) \o Take(ExtractPool.ips, ni)
                    \o Take(ExtractPool.domains, nd) \o Take(ExtractPool.phones, np)
          joined[i \in 0..Len(tokens)] ==
              IF i = 0 THEN <<>>
              ELSE IF i = 1 THEN tokens[1]
              ELSE joined[i - 1] \o <<";">> \o tokens[i]
      IN [text |-> joined[Len(tokens)] \o <<"\n">> \o ls,
          m |-> [emails  |-> Take(ExtractPool.emails, ne),
                 ips     |-> Take(ExtractPool.ips, ni),
                 domains |-> [ix \in 1..ne |-> CaseDomains[1]] \o Take(ExtractPool.domains, nd),
                 phones  |-> Take(ExtractPool.phones, np)]] :
        ne \in 0..Len(ExtractPool.emails), ni \in 0..Len(ExtractPool.ips),
        nd \in 0..Len(ExtractPool.domains), np \in 0..Len(ExtractPool.phones),
        ls \in ExtractPool.lines }

\* extractIndicators(text) on one description
ApplyExtract ==
    /\ pure = Idle
    /\ \E input \in ExtractInputs :
          pure' = [op |-> "extract", in |-> input,
                   out |-> extractIndicators(input.text, input.m)]
    /\ UNCHANGED <<jobs, stack, now, provider, last, done, netlog, calls, rejected>>

\* The targets guessTargetType is applied to: every string of at most
\* MaxTargetLen characters of a small alphabet, and some longer ones.
MaxTargetLen == 3

GuessInputs ==
    UNION {[1..n -> {"1", ".", "@", " ", ",", "a"}] : n \in 0..MaxTargetLen}
    \cup {<<"a","@","b",".","c","o","m">>, <<"1","9","2",".","1","6","8",".","1",".","1">>, <<"e","x","a","m","p","l","e",".","c","o","m">>, <<"J","o","h","n"," ","S","m","i","t","h">>, <<"j","d","o","e">>, <<"5","5","5","1","2","3","4","5","6","7">>, <<"+","1"," ","5","5","5"," ","1","2","3"," ","4","5","6","7">>, <<"5","5","5",".","1","2","3",".","4","5","6","7">>, <<"1",".","1",".","1",".","1"," ","a","@","b">>,
          <<"1","0","0",".","1","0","0",".","1","0","0",".","1","0","0">>}

\* guessTargetType(target) on one target
ApplyGuess ==
    /\ pure = Idle
    /\ \E input \in GuessInputs :
          pure' = [op |-> "guess", in |-> input, out |-> guessTargetType(input)]
    /\ UNCHANGED <<jobs, stack, now, provider, last, done, netlog, calls, rejected>>

\* A field of a provider's raw record: absent (undefined or null), or given
\* with a text.
Missing == [d |-> FALSE, s |-> <<>>]

Given(s) == [d |-> TRUE, s |-> s]

\* String(a ?? b ?? ... ?? "").trim(): the first field that is given, even
\* when its text is empty
Coalesce(fields) ==
    IF \E i \in 1..Len(fields) : fields[i].d
    THEN Trim(fields[CHOOSE i \in 1..Len(fields) :
                        fields[i].d /\ \A j \in 1..(i - 1) : ~fields[j].d].s)
    ELSE <<>>

\* the common record braveWebSearch maps a raw record to (lines 53-57); a
\* snippet of <<>> stands for `undefined`
braveRecord(r) ==
    [title |-> Coalesce(<<r.title>>), url |-> Coalesce(<<r.url>>),
     snippet |-> Coalesce(<<r.description>>)]

\* the common record normalizeResults maps a raw record to (lines 81-85)
normalizedRecord(r) ==
    [title |-> Coalesce(<<r.title, r.name>>), url |-> Coalesce(<<r.url, r.link>>),
     snippet |-> Coalesce(<<r.snippet, r.description, r.summary>>)]

CommonRecord(via, r) == IF via = "brave" THEN braveRecord(r) ELSE normalizedRecord(r)

\* lines 52-59 (via "brave") and 80-86 (via "routeway"): map, then
\* .filter((r) => r.title && r.url)
normalizeResults(via, items) ==
    SelectSeq([i \in 1..Len(items) |-> CommonRecord(via, items[i])],
              LAMBDA r : r.title # <<>> /\ r.url # <<>>)

NoFields ==
    [title |-> Missing, name |-> Missing, url |-> Missing, link |-> Missing,
     snippet |-> Missing, description |-> Missing, summary |-> Missing]

\* raw records as a provider may answer them: complete, title only, url only,
\* empty, blank texts, the alternative field names, an empty title before a
\* name
RawPool ==
    { [NoFields EXCEPT !.title = Given(<<"t">>), !.url = Given(<<"u">>),
                       !.description = Given(<<"s">>)],
      [NoFields EXCEPT !.title = Given(<<" ", "t", " ">>)],
      [NoFields EXCEPT !.url = Given(<<"u">>), !.snippet = Given(<<"s">>)],
      NoFields,
      [NoFields EXCEPT !.title = Given(<<" ">>), !.url = Given(<<" ">>)],
      [NoFields EXCEPT !.name = Given(<<"n">>), !.link = Given(<<"l">>),
                       !.summary = Given(<<"s">>)],
      [NoFields EXCEPT !.title = Given(<<>>), !.name = Given(<<"n">>),
                       !.url = Given(<<"u">>)] }

MaxRaw == 2

RawLists == UNION {[1..n -> RawPool] : n \in 0..MaxRaw}

ApplyNormalize ==
    /\ pure = Idle
    /\ \E via \in {"brave", "routeway"}, items \in RawLists :
          pure' = [op |-> "normalize", via |-> via, in |-> items,
                   out |-> normalizeResults(via, items)]
    /\ UNCHANGED <<jobs, stack, now, provider, last, done, netlog, calls, rejected>>

SpecHelpers == InitDedup /\ [][ApplyExtract \/ ApplyGuess \/ ApplyNormalize]_vars

\* ----------------------------------------------------------- the task queue
MaxEnqueues == 4

\* schedulePump(), lines 47-60: one setImmediate callback is scheduled unless
\* one already is
schedulePump(j) == [j EXCEPT !.pumpScheduled = TRUE]

\* enqueueTask(taskId), lines 62-66
enqueueTask ==
    /\ jobs.enqueued < MaxEnqueues
    /\ \E taskId \in TaskIds :
          jobs' = IF taskId \in jobs.running
                  THEN [jobs EXCEPT !.enqueued = @ + 1]
                  ELSE schedulePump([jobs EXCEPT !.enqueued = @ + 1,
                                                !.pending = Append(@, taskId)])
    /\ UNCHANGED <<stack, now, provider, last, done, netlog, calls, pure, rejected>>

\* runTask is entered for taskId although the id is in the running set
EntersAnyway(j, taskId) == FALSE

\* line 69: `if (running.has(taskId)) return;`
TurnedAtGuard(j, taskId) == taskId \in j.running

\* The setImmediate callback, lines 50-59: it takes the head of pending and
\* calls runTask, whose synchronous part (lines 69-72) runs to its first
\* await. The `finally` of the callback runs when runTask has returned: at
\* once if the guard turned the call away.
Pump ==
    /\ jobs.pumpScheduled
    /\ LET j == [jobs EXCEPT !.pumpScheduled = FALSE] IN
       jobs' = IF j.pending = <<>> THEN j
               ELSE LET next == Head(j.pending)
                        k == [j EXCEPT !.pending = Tail(@)]
                    IN IF TurnedAtGuard(k, next)
                       THEN schedulePump([k EXCEPT !.turned.guard = @ + 1])
                       ELSE [k EXCEPT !.running = @ \cup {next},
                                      !.acts = Append(@, [id |-> next, pc |-> "getTask",
                                                          task |-> "none", inv |-> Undef])]
    /\ UNCHANGED <<stack, now, provider, last, done, netlog, calls, pure, rejected>>

\* the activation i of runTask is over: its `running.delete(taskId)` (lines
\* 74, 79, 204) and the callback's `finally { schedulePump(); }`
EndAct(j, i) ==
    schedulePump([j EXCEPT
        !.running = @ \ {j.acts[i].id},
        !.acts = SubSeq(@, 1, i - 1) \o SubSeq(@, i + 1, Len(@))])

SetAct(j, i, pc) == [j EXCEPT !.acts[i].pc = pc]

\* line 72: storage.getTask(taskId) answers the stored row
GetTask ==
    /\ \E i \in 1..Len(jobs.acts) :
          /\ jobs.acts[i].pc = "getTask"
          /\ jobs' = [SetAct(jobs, i, "check") EXCEPT
                         !.acts[i].task = jobs.status[jobs.acts[i].id]]
    /\ UNCHANGED <<stack, now, provider, last, done, netlog, calls, pure, rejected>>

\* lines 73-82: a missing row or a row not queued ends the activation; a queued
\* row is stored as running
StartTask ==
    /\ \E i \in 1..Len(jobs.acts) :
          /\ jobs.acts[i].pc = "check"
          /\ LET a == jobs.acts[i] IN
             jobs' = IF a.task # "queued"
                     THEN EndAct([jobs EXCEPT !.turned.status = @ + 1], i)
                     ELSE [SetAct(jobs, i, "getInvestigation") EXCEPT
                              !.status[a.id] = "running", !.started[a.id] = @ + 1]
    /\ UNCHANGED <<stack, now, provider, last, done, netlog, calls, pure, rejected>>

\* line 86: the investigation row as it is stored now
GetInvestigation ==
    /\ \E i \in 1..Len(jobs.acts) :
          /\ jobs.acts[i].pc = "getInvestigation"
          /\ jobs' = [SetAct(jobs, i, "work") EXCEPT !.acts[i].inv = jobs.completedTasks]
    /\ UNCHANGED <<stack, now, provider, last, done, netlog, calls, pure, rejected>>

\* lines 89-163 and 172-177: the connector's work, which ends with the task
\* stored as completed, or throws (lines 185-189: stored as failed)
Work ==
    /\ \E i \in 1..Len(jobs.acts), ok \in BOOLEAN :
          /\ jobs.acts[i].pc = "work"
          /\ jobs' = IF ok
                     THEN [SetAct(jobs, i, "count") EXCEPT
                              !.status[jobs.acts[i].id] = "completed"]
                     ELSE [SetAct(jobs, i, "failedRead") EXCEPT
                              !.status[jobs.acts[i].id] = "failed"]
    /\ UNCHANGED <<stack, now, provider, last, done, netlog, calls, pure, rejected>>

\* line 194: the failure path reads the investigation row again
FailedRead ==
    /\ \E i \in 1..Len(jobs.acts) :
          /\ jobs.acts[i].pc = "failedRead"
          /\ jobs' = [SetAct(jobs, i, "count") EXCEPT !.acts[i].inv = jobs.completedTasks]
    /\ UNCHANGED <<stack, now, provider, last, done, netlog, calls, pure, rejected>>

\* lines 165-167, 179-181 and 196-198: completedTasks is stored as the row
\* read earlier plus one; then the `finally` of line 203
Count ==
    /\ \E i \in 1..Len(jobs.acts) :
          /\ jobs.acts[i].pc = "count"
          /\ jobs' = EndAct([jobs EXCEPT !.completedTasks = jobs.acts[i].inv + 1], i)
    /\ UNCHANGED <<stack, now, provider, last, done, netlog, calls, pure, rejected>>

NextQueue ==
    enqueueTask \/ Pump \/ GetTask \/ StartTask \/ GetInvestigation \/ Work
    \/ FailedRead \/ Count

SpecQueue == InitDedup /\ [][NextQueue]_vars

\* ------------------------------------------------------------------ claims
PastDeadline(f) == now >= Deadline(f)

Frames == {stack[i] : i \in 1..Len(stack)}

\* C1: every invocation of one call tree has the start time and the budget,
\* hence the deadline, of the top-level invocation.
C1_SharedDeadline ==
    \A i \in 1..Len(stack) :
        /\ stack[i].startedAt = stack[1].startedAt
        /\ stack[i].budgetMs = stack[1].budgetMs
        /\ Deadline(stack[i]) = Deadline(stack[1])

\* a lead-following invocation at normal depth below a thorough top-level
\* invocation, made after the clock has advanced
C1_Witness ==
    /\ Len(stack) >= 2
    /\ stack[1].depth = "thorough" /\ stack[1].options.timeBudgetMs = Undef
    /\ Top.via = "lead" /\ Top.depth = "normal"
    /\ now > stack[1].startedAt

\* the evidence and entities of the invocation that is active now, as they are
\* after the step: in its result when the step returned it, in its frame otherwise
EvidenceAfter == IF Len(stack') < Len(stack) THEN last'.evidence ELSE stack'[Len(stack)].evidence

EntitiesAfter == IF Len(stack') < Len(stack) THEN last'.entities ELSE stack'[Len(stack)].entities

NetworkGates == {"dns", "address", "name", "rdap", "crt", "github"}

AtProbeStart(f) ==
    \/ f.pc \in NetworkGates
    \/ f.pc = "phone"
    \/ f.pc = "finish" /\ f.ttype = "email"

TopOptions == IF stack # <<>> THEN stack[1].options ELSE last.options

LocalSources == {"Parser", "Case Intake"}

\* C4: a run with timeBudgetMs = 0 starts no network request, no web-search
\* query and no recursive invocation, and returns at most the local items.
C4_ZeroBudget ==
    ((stack # <<>> \/ done) /\ TopOptions.timeBudgetMs = 0) =>
        /\ netlog = {}
        /\ calls = {}
        /\ Len(stack) <= 1
        /\ done =>
             /\ \A i \in 1..Len(last.evidence) : last.evidence[i].source \in LocalSources
             /\ last.ttype \in {"domain", "ip", "address", "name", "username"}
                    => last.evidence = <<>> /\ last.entities = <<>>
             /\ last.ttype = "case" => Len(last.evidence) = 2
             /\ last.ttype \in {"phone", "email"} => Len(last.evidence) = 1

\* a zero-budget run has returned its local items
C4_Witness ==
    /\ done /\ last.options.timeBudgetMs = 0
    /\ last.evidence # <<>>

\* C5 as stated: an invocation started by lead-following makes no
\* lead-following call of its own.
C5_SingleLevel ==
    \A i \in 2..Len(stack) : stack[i].via = "lead" => stack[i - 1].via # "lead"

\* C6 as stated: no lead-following invocation has the top-level target,
\* ignoring case.
C6_TopTargetNotFollowed ==
    \A i \in 2..Len(stack) :
        stack[i].via = "lead" => Lower(stack[i].target) # Lower(stack[1].target)

Distinct(s) == \A i, j \in 1..Len(s) : i # j => Lower(s[i]) # Lower(s[j])

FollowedWithin(f, followed) ==
    /\ Len(followed) <= (IF f.depth = "thorough" THEN 4 ELSE 1)
    /\ Distinct(followed)
    /\ \A i \in 1..Len(followed) : Lower(followed[i]) # Lower(f.target)

\* C7: the leads one invocation follows, per category: at most 1 at normal
\* and 4 at thorough depth, pairwise distinct and different from the
\* invocation's own target, all ignoring case.
C7_LeadCaps ==
    \A f \in Frames :
        /\ FollowedWithin(f, f.followedDomains)
        /\ FollowedWithin(f, f.followedUsers)

\* a thorough invocation that had more than 4 candidate domains, its own
\* target and a case variant among them, has followed 4
C7_Witness ==
    \E f \in Frames :
        /\ Len(f.followedDomains) = 4
        /\ Len(ValuesOfType(f.entities, TDomain)) > 5

WebEvidence(evidence) == {i \in 1..Len(evidence) : evidence[i].source = "Web Search"}

\* C8: a lead-following call is made with depth normal and skipWebSearch, and
\* neither it nor an invocation below it dispatches a query or records a
\* web-search item.
C8_LeadsNeverSearch ==
    /\ \A i \in 1..Len(stack) :
          stack[i].via = "lead" =>
              /\ stack[i].depth = "normal"
              /\ \A j \in i..Len(stack) :
                    /\ stack[j].options.skipWebSearch
                    /\ WebEvidence(stack[j].evidence) = {}
                    /\ stack[j].pc \notin {"webLoop", "webQuery"}
    /\ \A r \in netlog : r.kind = "websearch" => ~r.skip
    /\ (last # NoResult /\ last.via = "lead") => WebEvidence(last.evidence) = {}

\* a lead followed by a thorough invocation with a provider configured has
\* run to its end
C8_Witness ==
    /\ provider /\ stack # <<>> /\ stack[1].depth = "thorough"
    /\ \E r \in netlog : r.kind = "websearch"
    /\ last # NoResult /\ last.via = "lead" /\ last.exit = "end" /\ ~last.late

NoDuplicateKeys(entities) ==
    \A i, j \in 1..Len(entities) :
        i # j => Lower(entities[i].entityType) \o <<":">> \o Lower(entities[i].value)
                 # Lower(entities[j].entityType) \o <<":">> \o Lower(entities[j].value)

\* C9 as stated: the entities of every returned CollectionResult hold no two
\* entities with the same key.
C9_ResultsDeduplicated == last # NoResult => NoDuplicateKeys(last.entities)

ClaimKey(e) == Lower(e.entityType) \o <<":">> \o Lower(e.value)

\* out is in[p[1]], in[p[2]], ... for increasing positions p
IsFirstSeenFilter(in, out) ==
    LET firsts == {i \in 1..Len(in) : \A j \in 1..(i - 1) : ClaimKey(in[j]) # ClaimKey(in[i])}
    IN /\ Len(out) = Cardinality(firsts)
       /\ \A k \in 1..Len(out) :
             \E i \in firsts :
                /\ out[k] = in[i]
                /\ Cardinality({j \in firsts : j < i}) = k - 1

\* C10: de-duplication keeps, in order, exactly the first entity of each key
\* lower(entityType):lower(value), with its metadata, and is idempotent.
C10_DedupFirstSeen ==
    pure.op = "dedup" =>
        /\ IsFirstSeenFilter(pure.in, pure.out)
        /\ DedupEntities(pure.out) = pure.out

\* a list in which a later entity repeats a key with other metadata
C10_Witness ==
    /\ pure.op = "dedup"
    /\ Len(pure.out) = 2 /\ Len(pure.in) = 3
    /\ \E i, j \in 1..Len(pure.in) :
          /\ i < j /\ ClaimKey(pure.in[i]) = ClaimKey(pure.in[j])
          /\ pure.in[i].metadata # pure.in[j].metadata

Trimmed(v) == v # <<>> /\ Trim(v) = v

\* C11: every entity of every returned CollectionResult, and of every running
\* invocation (which holds what it merged from sub-results), has a non-empty
\* value without leading or trailing whitespace.
C11_EntityValuesTrimmed ==
    /\ last # NoResult => \A i \in 1..Len(last.entities) : Trimmed(last.entities[i].value)
    /\ \A f \in Frames : \A i \in 1..Len(f.entities) : Trimmed(f.entities[i].value)

\* the result of a domain run holds the org of a followed username's GitHub
\* profile, whose company field came padded, merged from that sub-result
C11_Witness ==
    /\ done /\ last.ttype = "domain"
    /\ \E i \in 1..Len(last.evidence) :
          last.evidence[i].source = "GitHub" /\ last.evidence[i].type = "json"
    /\ \A i \in 1..Len(last.evidence) :
          last.evidence[i].source = "RDAP" => last.evidence[i].type = "text"
    /\ \E i \in 1..Len(last.entities) :
          last.entities[i].entityType = TOrg /\ last.entities[i].value = OrgName

\* ---------------------------------------------------------------- C12
MaxEvidence == 3

\* metadata.confidence of a draft: missing, in range, or above 1
ConfidenceValues == {Undef, 0, 500, 900, 1001}

RECURSIVE SeqsUpTo(_, _)
SeqsUpTo(S, n) ==
    IF n = 0 THEN {<<>>}
    ELSE LET shorter == SeqsUpTo(S, n - 1)
         IN shorter \cup {Append(q, x) : q \in shorter, x \in S}

EvidenceLists ==
    SeqsUpTo({Ev("json", "item", <<>>, "any", c) : c \in ConfidenceValues}, MaxEvidence)

PresentConfidences(evidence) ==
    {i \in 1..Len(evidence) : evidence[i].conf >= 0 /\ evidence[i].conf <= 1000}

RECURSIVE SumOver(_, _)
SumOver(evidence, idx) ==
    IF idx = {} THEN 0
    ELSE LET i == CHOOSE j \in idx : TRUE
         IN evidence[i].conf + SumOver(evidence, idx \ {i})

\* c (in thousandths) is 0 when no item carries a confidence in [0,1], and
\* otherwise the mean of the present values to the nearest thousandth
IsRoundedMean(c, evidence) ==
    LET idx == PresentConfidences(evidence)
        n == Cardinality(idx)
        d == c * n - SumOver(evidence, idx)
    IN /\ c >= 0 /\ c <= 1000
       /\ IF n = 0 THEN c = 0 ELSE 2 * d <= n /\ 2 * d >= 0 - n

\* C12: the confidence of every returned CollectionResult is the rounded mean
\* of the present confidences of all the evidence it returns (merged items
\* included), 0 when there is none, and in [0,1]; computeConfidence gives
\* this for every evidence list, and 0.7 for [0.9, 0.5, missing].  (The
\* function does not read the state: its inputs are enumerated once, in the
\* initial state.)
C12_ConfidenceIsMean ==
    /\ last # NoResult => IsRoundedMean(last.confidence, last.evidence)
    /\ (stack = <<>> /\ ~done) =>
          /\ \A ev \in EvidenceLists : IsRoundedMean(computeConfidence(ev), ev)
          /\ computeConfidence(<<Ev("json", "item", <<>>, "any", 900),
                                  Ev("json", "item", <<>>, "any", 500),
                                  Ev("json", "item", <<>>, "any", Undef)>>) = 700

\* a result with evidence merged from a sub-result, whose mean needed rounding
C12_Witness ==
    /\ done /\ calls # {}
    /\ Len(last.evidence) >= 3
    /\ \E i \in 1..Len(last.evidence) : last.evidence[i].source = "GitHub"
    /\ last.ttype = "domain"
    /\ (SumOver(last.evidence, PresentConfidences(last.evidence))
           % Cardinality(PresentConfidences(last.evidence))) # 0
    /\ last.confidence > 0

\* ---------------------------------------------------------------- C13
\* the run is over and every network call it made has failed
TotalFailure == done /\ netlog # {} /\ \A r \in netlog : ~r.ok

FailureItem(e) == e.type = "text" /\ e.conf <= 200

\* an item that is recorded without any network call having succeeded: the
\* DNS item with no record kind in it, a local item, the no-provider notice
NeedsNoSuccess(e) ==
    \/ e.source = "DNS" /\ e.content = <<>>
    \/ e.source \in LocalSources
    \/ e.source = "Web Search" /\ e.conf = 50 /\ ~provider

\* C13 as stated: after a total failure the result holds only failure items
\* and its confidence is 0.
C13_TotalFailureZero ==
    TotalFailure =>
        /\ \A i \in 1..Len(last.evidence) : FailureItem(last.evidence[i])
        /\ last.confidence = 0

\* C13 amended: after a total failure every item of the result is a failure
\* item (text, confidence at most 0.2) or one recorded without a successful
\* call, and the confidence is the rounded mean of the items, above 0.
C13_TotalFailureLowItems ==
    TotalFailure =>
        /\ \A i \in 1..Len(last.evidence) :
              FailureItem(last.evidence[i]) \/ NeedsNoSuccess(last.evidence[i])
        /\ IsRoundedMean(last.confidence, last.evidence)
        /\ last.evidence # <<>> /\ last.confidence > 0

\* a run of a name target whose Wikidata and web-search calls all failed
C13_Witness ==
    /\ TotalFailure /\ last.ttype = "name"
    /\ Cardinality({r.kind : r \in netlog}) >= 2
    /\ \A i \in 1..Len(last.evidence) : FailureItem(last.evidence[i])
    /\ last.confidence = 100

\* ---------------------------------------------------------------- C14
SingleRequestProbes == {"webQuery", "geocode", "wikidataSearch", "wikidataEntity",
                        "rdapLookup", "crtQuery", "githubLookup"}

\* the active invocation as it is after a step that leaves it active
TopAfter == stack'[Len(stack)]

\* this step ends a probe of the active invocation in failure: the request
\* of a single-request probe fails, or the DNS probe records its item after
\* all four resolutions have failed
ProbeFailsNow ==
    /\ stack # <<>> /\ Len(stack') = Len(stack)
    /\ Top.pending # {} /\ TopAfter.pending = {}
    /\ \/ Top.pc \in SingleRequestProbes /\ \E r \in netlog' \ netlog : ~r.ok
       \/ /\ Top.pc = "resolveMx"
          /\ TopAfter.evidence[Len(TopAfter.evidence)].content = <<>>

\* C14 as stated: a probe that fails appends one failure item (text,
\* confidence at most 0.2), is not tried again, and the invocation goes on.
C14_FailedProbeRecorded ==
    [][ProbeFailsNow =>
          /\ Len(TopAfter.evidence) = Len(Top.evidence) + 1
          /\ FailureItem(TopAfter.evidence[Len(TopAfter.evidence)])
          /\ TopAfter.pc # Top.pc]_vars

\* ---------------------------------------------------------------- C15
\* the positions at which an invocation has a next step of its own: one
\* action of the run handles each, whatever the network answers
RunPositions ==
    {"case", "caseLoop", "caseCall", "caseEnd", "web", "webLoop", "webQuery",
     "dns", "resolve4", "resolve6", "resolveNs", "resolveMx", "address", "geocode",
     "name", "wikidataSearch", "wikidataEntity", "leads", "leadDomains",
     "leadDomainCall", "leadUsers", "leadUserCall", "phone", "rdap", "rdapLookup",
     "crt", "crtQuery", "github", "githubLookup", "finish"}

\* C15: whatever the network calls answer, no invocation rejects because of
\* them: a running invocation always has a next step, and a run that has
\* begun ends only by returning a CollectionResult of the top-level
\* invocation (or by an exception of the progress callback).
C15_NeverRejectsOnNetwork ==
    /\ rejected \in {"none", "onStep"}
    /\ stack # <<>> => rejected = "none" /\ Top.pc \in RunPositions
    /\ (stack = <<>> /\ (netlog # {} \/ calls # {})) => done \/ rejected = "onStep"
    /\ done => rejected = "none" /\ last # NoResult /\ last.via = "top"
    /\ \A c \in calls : stack # <<>> \/ done \/ rejected = "onStep"

\* a run with a sub-invocation, in which calls failed and calls succeeded,
\* has returned its result
C15_Witness ==
    /\ done /\ rejected = "none" /\ calls # {}
    /\ \E r \in netlog : ~r.ok
    /\ \E r \in netlog : r.ok
    /\ Cardinality({r.kind : r \in netlog}) >= 4

\* ---------------------------------------------------------------- C16
\* C16 as stated: a progress callback that throws does not abort the run,
\* which still ends by returning a CollectionResult.
C16_CallbackFailureTolerated ==
    /\ rejected # "onStep"
    /\ (stack = <<>> /\ last # NoResult) => done

\* ---------------------------------------------------------------- C17
LeadPositions == {"leads", "leadDomains", "leadDomainCall", "leadUsers", "leadUserCall"}

\* C17 as stated: in a non-case invocation every item of its own probes
\* precedes every item of a lead-following sub-collection: once such items
\* have been merged, the invocation appends none of its own.
C17_OwnProbesBeforeLeads ==
    [][(/\ stack # <<>> /\ Len(stack') = Len(stack)
        /\ Top.ttype # "case" /\ Top.leadItems > 0
        /\ Top.pc \notin LeadPositions)
          => TopAfter.evidence = Top.evidence]_vars

\* the positions at which an invocation is suspended on the sub-collection
\* it awaits
AwaitingCall == {"caseLoop", "leadDomains", "leadUsers"}

RECURSIVE InFlight(_)
InFlight(i) ==
    IF i = 0 THEN 0 ELSE Cardinality(stack[i].pending) + InFlight(i - 1)

\* C18: within one collection run execution is strictly sequential: at most
\* one network request is in flight in the whole call tree, only the innermost
\* invocation runs, every other invocation is suspended on the one
\* sub-collection it awaits with no request of its own in flight, and no
\* request or sub-collection has started while an earlier request was in flight.
C18_StrictlySequential ==
    /\ InFlight(Len(stack)) <= 1
    /\ \A i \in 1..(Len(stack) - 1) :
          /\ stack[i].pending = {}
          /\ stack[i].pc \in AwaitingCall
          /\ stack[i + 1].via = IF stack[i].pc = "caseLoop" THEN "case" ELSE "lead"

\* a request is in flight in a sub-collection of a sub-collection, after
\* other requests of the run have settled
C18_Witness ==
    /\ Len(stack) = 3
    /\ Top.pending # {}
    /\ netlog # {}

\* ---------------------------------------------------------------- C19
\* the argument the case loop owes the ix-th extracted indicator
CaseInput(f, ix) ==
    [target |-> f.indicators[ix].value, targetType |-> f.indicators[ix].type, m |-> NoMatches]

\* the sub-collections a case invocation has started are those of a prefix
\* of its extracted indicators, in order, at most 8 or 20 of them
CollectedInOrder(f) ==
    /\ Len(f.collected) <= (IF f.depth = "thorough" THEN 20 ELSE 8)
    /\ Len(f.collected) <= Len(f.indicators)
    /\ \A ix \in 1..Len(f.collected) : f.collected[ix] = CaseInput(f, ix)

\* this step is the case loop starting a sub-collection
CaseStarts ==
    /\ stack # <<>> /\ Top.ttype = "case"
    /\ Len(stack') = Len(stack) + 1

\* the started sub-collection is the one of the next indicator not yet collected
StartsNextIndicator ==
    LET caller == stack'[Len(stack)]
        callee == stack'[Len(stack) + 1]
        ix     == Len(Top.collected) + 1
    IN /\ ix <= Len(Top.indicators)
       /\ caller.collected = Append(Top.collected, CaseInput(Top, ix))
       /\ callee.input = CaseInput(Top, ix)
       /\ callee.ttype = Top.indicators[ix].type
       /\ callee.evidence = <<>> /\ callee.collected = <<>>

\* C19 as stated: a case invocation collects its extracted indicators one at
\* a time in extraction order, each by one recursive invocation typed and
\* targeted by the indicator, at most 8 (normal) or 20 (thorough) of them, a
\* prefix of those extracted, and starts none once the deadline has passed.
C19_CaseCollectsPrefix ==
    [][/\ \A i \in 1..Len(stack') :
             stack'[i].ttype = "case" => CollectedInOrder(stack'[i])
       /\ CaseStarts => (StartsNextIndicator /\ ~outOfTime(Top))]_vars

\* C19 amended: as above, but a sub-collection is started only after the
\* loop's deadline check of that iteration found the deadline not yet passed;
\* the deadline may pass between that check and the start.
C19_CaseCollectsCheckedPrefix ==
    [][/\ \A i \in 1..Len(stack') :
             stack'[i].ttype = "case" => CollectedInOrder(stack'[i])
       /\ CaseStarts => (/\ StartsNextIndicator
                         /\ Top.gateAt # Undef /\ Top.gateAt < Deadline(Top))]_vars

\* a case run at normal depth that extracted nine indicators has collected
\* the first eight and left its loop
C19_Witness ==
    /\ stack # <<>> /\ stack[1].ttype = "case" /\ stack[1].depth = "normal"
    /\ Len(stack[1].indicators) = 9
    /\ Len(stack[1].collected) = 8
    /\ stack[1].pc \notin {"caseLoop", "caseCall"}

\* ---------------------------------------------------------------- C20
UrlsOf(entities) == SelectSeq(entities, LAMBDA e : e.entityType = TUrl)

\* this step starts the query loop of a web-search pass
PassStarts ==
    /\ stack # <<>> /\ Len(stack') = Len(stack)
    /\ Top.pc = "web" /\ TopAfter.pc = "webLoop"

\* this step settles a web-search query
QuerySettles ==
    /\ stack # <<>> /\ Len(stack') = Len(stack)
    /\ Top.pc = "webQuery" /\ TopAfter.pc # "webQuery"

\* the queries of a case pass are those of distinct indicators of the four
\* types, one query each
FromPrimaryIndicators(f, queries) ==
    \E pick \in [1..Len(queries) -> 1..Len(f.indicators)] :
        /\ \A a, b \in 1..Len(queries) : a < b => pick[a] < pick[b]
        /\ \A a \in 1..Len(queries) :
              /\ f.indicators[pick[a]].type \in {"name", "email", "username", "domain"}
              /\ f.indicators[pick[a]].value = queries[a].arg

\* C20: each web-search pass dispatches at most 2 queries at normal depth and
\* 5 at thorough depth, a settled query adds the entities of at most its first
\* 10 results, and the pass of a case invocation is built from at most 2
\* (normal) or 4 (thorough) indicators of type name, email, username or domain.
C20_WebSearchCaps ==
    [][/\ \A i \in 1..Len(stack') :
             stack'[i].dispatched <= (IF stack'[i].depth = "thorough" THEN 5 ELSE 2)
       /\ PassStarts =>
             Len(TopAfter.queue) <= (IF Top.depth = "thorough" THEN 5 ELSE 2)
       /\ QuerySettles =>
             Len(UrlsOf(TopAfter.entities)) - Len(UrlsOf(Top.entities)) <= 10
       /\ (PassStarts /\ Top.ttype = "case") =>
             /\ Len(TopAfter.queue) <= (IF Top.depth = "thorough" THEN 4 ELSE 2)
             /\ FromPrimaryIndicators(Top, TopAfter.queue)]_vars

\* a thorough case run with more than four indicators of the four types is
\* in its own pass of four queries, after one of its sub-collections was
\* answered more than ten results by one query and kept the URLs of ten
C20_Witness ==
    /\ Len(stack) = 1 /\ Top.ttype = "case" /\ Top.depth = "thorough"
    /\ Top.pc = "webQuery" /\ Len(Top.queue) = 4
    /\ Len(SelectSeq(Top.indicators,
                     LAMBDA i : i.type \in {"name", "email", "username", "domain"})) > 4
    /\ Len(UrlsOf(Top.entities)) = 10

\* ---------------------------------------------------------------- C21
\* this step is the head of a web-search pass that has a query, is not
\* suppressed and is within the deadline, with no provider configured
UnconfiguredPass ==
    /\ stack # <<>> /\ Len(stack') = Len(stack) /\ TopAfter # Top
    /\ Top.pc = "web" /\ ~provider
    /\ (IF Top.ttype = "case" THEN CaseQueries(Top) ELSE TypeQueries(Top)) # <<>>
    /\ ~Top.options.skipWebSearch /\ ~outOfTime(Top)

SkippedItem(e) ==
    /\ e.title = "Web search skipped (no provider configured)"
    /\ e.source = "Web Search" /\ e.conf = 50

\* C21: with no provider configured, a web-search pass that has a query, is
\* not suppressed by skipWebSearch and is within the deadline appends exactly
\* one item marking the search as skipped, with confidence 0.05, adds no
\* entity and leaves the pass at once; no query is ever dispatched.
C21_UnconfiguredSearchSkipped ==
    [][/\ UnconfiguredPass =>
             /\ Len(TopAfter.evidence) = Len(Top.evidence) + 1
             /\ SubSeq(TopAfter.evidence, 1, Len(Top.evidence)) = Top.evidence
             /\ SkippedItem(TopAfter.evidence[Len(TopAfter.evidence)])
             /\ TopAfter.entities = Top.entities
             /\ TopAfter.pc = AfterWeb(Top)
       /\ ~provider =>
             /\ \A r \in netlog' : r.kind # "websearch"
             /\ \A i \in 1..Len(stack') :
                   stack'[i].dispatched = 0 /\ stack'[i].pc \notin {"webLoop", "webQuery"}]_vars

\* a username run without a provider has recorded the skipped item and gone
\* on to lead-following
C21_Witness ==
    /\ ~provider /\ Len(stack) = 1 /\ Top.ttype = "username"
    /\ Top.pc = "leads" /\ ~outOfTime(Top)
    /\ Len(Top.evidence) = 1 /\ SkippedItem(Top.evidence[1])
    /\ Top.entities = <<>>

\* ---------------------------------------------------------------- C22
IndicatorTypes == <<"email", "ip", "domain", "phone", "address", "name">>

IndicatorCaps == <<3, 3, 3, 2, 1, 1>>

TypeRank(t) == CHOOSE r \in 1..Len(IndicatorTypes) : IndicatorTypes[r] = t

\* C22: extractIndicators returns at most 3 email, 3 ip, 3 domain, 2 phone, 1
\* address and 1 name indicators, in that type order, no indicator of another
\* type, and no two indicators of the same type and the same value ignoring
\* case.
C22_IndicatorCaps ==
    pure.op = "extract" =>
        LET out == pure.out IN
        /\ \A i \in 1..Len(out) : \E r \in 1..Len(IndicatorTypes) : out[i].type = IndicatorTypes[r]
        /\ \A r \in 1..Len(IndicatorTypes) :
              Cardinality({i \in 1..Len(out) : out[i].type = IndicatorTypes[r]}) <= IndicatorCaps[r]
        /\ \A i, j \in 1..Len(out) :
              i < j => /\ TypeRank(out[i].type) <= TypeRank(out[j].type)
                       /\ ~(out[i].type = out[j].type /\ Lower(out[i].value) = Lower(out[j].value))

\* a description with more distinct matches of every pattern than are kept,
\* two address lines and two name lines gave thirteen indicators
C22_Witness ==
    /\ pure.op = "extract"
    /\ Len(pure.out) = 13
    /\ Cardinality({Lower(pure.in.m.emails[i]) : i \in 1..Len(pure.in.m.emails)}) > 3
    /\ Cardinality({normalizePhone(pure.in.m.phones[i]) : i \in 1..Len(pure.in.m.phones)}) > 2

\* ---------------------------------------------------------------- C23
\* 5 for every crt.sh probe that kept more than 50 subdomains
RiskOwed(kept) == 5 * Cardinality({i \in 1..Len(kept) : kept[i] > 50})

RiskIsSum(r) ==
    /\ r.riskDelta = RiskOwed(r.crtKept)
    /\ r.riskDelta >= 0
    /\ \A i \in 1..Len(r.crtKept) : r.crtKept[i] <= 500

\* C23: the riskDelta of an invocation, while it runs and in the result it
\* returns, is 5 times the number of crt.sh probes, its own and those of all
\* the sub-collections that have returned to it, that kept more than 50
\* subdomains (at most 500 are kept per probe); it is never negative.
C23_RiskDeltaIsSum ==
    /\ \A i \in 1..Len(stack) : RiskIsSum(stack[i])
    /\ last # NoResult => RiskIsSum(last)

\* a case run has returned riskDelta 15: of its four crt.sh probes, one in a
\* lead-following call below a sub-collection, one kept exactly 50 subdomains
C23_Witness ==
    /\ done /\ last.ttype = "case"
    /\ last.riskDelta = 15
    /\ Len(last.crtKept) = 4
    /\ \E i \in 1..Len(last.crtKept) : last.crtKept[i] = 50

\* ---------------------------------------------------------------- C24
GuessOrder == <<"ip", "email", "domain", "phone", "address", "name", "username">>

\* the check guessTargetType makes for a type
GuessCheck(t, s) ==
    CASE t = "ip"      -> IsDottedQuad(s)
      [] t = "email"   -> \E i \in 1..Len(s) : s[i] = "@"
      [] t = "domain"  -> (\E i \in 1..Len(s) : s[i] = ".") /\ (\A i \in 1..Len(s) : s[i] # " ")
      [] t = "phone"   -> Cardinality({i \in 1..Len(s) : s[i] \in Digits}) \in 10..15
      [] t = "address" -> HasStreetNumber(s) \/ (\E i \in 1..Len(s) : s[i] = ",")
      [] t = "name"    -> (\E i \in 1..Len(s) : IsLetter(s[i])) /\ WordCount(s) >= 2
      [] t = "username" -> TRUE

\* C24: guessTargetType returns the first type, in the order ip, email,
\* domain, phone, address, name, whose check matches the target, username
\* when none does; "a@b.com" gives email, "192.168.1.1" ip, "example.com"
\* domain, "John Smith" name and "jdoe" username.
C24_GuessFirstMatch ==
    pure.op = "guess" =>
        /\ \E r \in 1..Len(GuessOrder) :
              /\ pure.out = GuessOrder[r]
              /\ GuessCheck(GuessOrder[r], pure.in)
              /\ \A q \in 1..(r - 1) : ~GuessCheck(GuessOrder[q], pure.in)
        /\ pure.in = <<"a","@","b",".","c","o","m">> => pure.out = "email"
        /\ pure.in = <<"1","9","2",".","1","6","8",".","1",".","1">> => pure.out = "ip"
        /\ pure.in = <<"e","x","a","m","p","l","e",".","c","o","m">> => pure.out = "domain"
        /\ pure.in = <<"J","o","h","n"," ","S","m","i","t","h">> => pure.out = "name"
        /\ pure.in = <<"j","d","o","e">> => pure.out = "username"

\* a target that passes the ip, the domain and the phone check was typed ip
C24_Witness ==
    /\ pure.op = "guess" /\ pure.out = "ip"
    /\ GuessCheck("domain", pure.in)
    /\ GuessCheck("phone", pure.in)

\* ---------------------------------------------------------------- C25
IsPrefix(s, t) == Len(s) <= Len(t) /\ SubSeq(t, 1, Len(s)) = s

\* C25: evidence is append-only and order-preserving: a step leaves the
\* evidence of every running invocation a prefix of what it is afterwards, an
\* invocation returns its evidence as it stands, and the caller's evidence
\* after a sub-collection returns is what it was followed by the whole
\* sub-result in its own order.
C25_EvidenceAppendOnly ==
    [][/\ \A i \in 1..Len(stack) :
             i <= Len(stack') => IsPrefix(stack[i].evidence, stack'[i].evidence)
       /\ (stack # <<>> /\ Len(stack') = Len(stack) - 1 /\ rejected' = "none") =>
             /\ IsPrefix(Top.evidence, last'.evidence)
             /\ Len(stack') >= 1 =>
                   stack'[Len(stack')].evidence
                      = stack[Len(stack')].evidence \o last'.evidence]_vars

\* a running domain invocation holds its DNS item first, then the items of a
\* lead sub-collection, then an RDAP item of its own
C25_Witness ==
    /\ Len(stack) = 1 /\ Top.ttype = "domain"
    /\ Top.leadItems > 0
    /\ Top.evidence[1].source = "DNS" /\ Top.evidence[1].about = Top.target
    /\ \E k \in 2..(Len(Top.evidence) - 1) : Top.evidence[k].about # Top.target
    /\ Top.evidence[Len(Top.evidence)].source = "RDAP"
    /\ Top.evidence[Len(Top.evidence)].about = Top.target

\* ---------------------------------------------------------------- C26
\* C26 as stated: an invocation that skipped remaining work because the
\* deadline had passed, here by returning at the deadline check of a probe,
\* has reported a step notice saying so before it returned.
C26_DeadlineSkipNoticed ==
    (last # NoResult /\ last.exit \in NetworkGates) => last.notices > 0

C28_DropsOnlyEmpty ==
    pure.op = "normalize" =>
        pure.out = SelectSeq([i \in 1..Len(pure.in) |-> CommonRecord(pure.via, pure.in[i])],
                             LAMBDA r : r.title # <<>> \/ r.url # <<>>)

\* the stored tasks that have finished, completed or failed
FinishedTasks == {t \in TaskIds : jobs.status[t] \in {"completed", "failed"}}

\* C29: the work of a task id is executed at most once. No two runTask
\* activations of the same id are past the running-set guard at the same
\* time, the work of no id has started twice, and an activation past the
\* status check works on a task it stored as running itself.
C29_AtMostOnce ==
    /\ \A i, k \in 1..Len(jobs.acts) : i # k => jobs.acts[i].id # jobs.acts[k].id
    /\ \A t \in TaskIds : jobs.started[t] <= 1
    /\ \A i \in 1..Len(jobs.acts) :
          /\ jobs.acts[i].id \in jobs.running
          /\ jobs.acts[i].pc \notin {"getTask", "check"} => jobs.started[jobs.acts[i].id] = 1

\* an id was turned away at the guard while its work was under way, and,
\* enqueued again, turned away once more when its row was no longer queued
C29_Witness ==
    /\ jobs.turned.guard >= 1 /\ jobs.turned.status >= 1
    /\ jobs.started["t1"] = 1 /\ jobs.started["t0"] = 0
    /\ jobs.status["t1"] \in {"completed", "failed"}
    /\ jobs.acts = <<>> /\ jobs.pending = <<>>

\* C30: completedTasks grows by exactly one for each task that finishes:
\* when no activation is under way, it counts the finished tasks.
C30_CountsFinished ==
    jobs.acts = <<>> => jobs.completedTasks = Cardinality(FinishedTasks)

====
